---------------------------- MODULE Spec2Model ----------------------------
(***************************************************************************)
(* Model of the ADXL372 driver: the register codec (registers.rs,          *)
(* params.rs), the cached Config and its validation (config.rs), the       *)
(* configuration engine and the device facade (device.rs) and the self-    *)
(* test procedure (self_test.rs), run against a register-level model of    *)
(* the bus and of the device behind it.                                    *)
(*                                                                         *)
(* Every driver call is one action.  A call threads a "world" record       *)
(* through the operators that model the functions it calls:                *)
(*   config  the driver's cached Config (Adxl372.config)                   *)
(*   regs    the bytes the device holds in its writable registers          *)
(*   ignore  the device's quirk: whether it ignores one bit per register   *)
(*   fail    the positions (1-based, counted over the bus operations of    *)
(*           the call) at which the bus primitive returns an error         *)
(*   script  the hardware's behaviour during a self-test                   *)
(*   ops     the number of bus operations issued so far in the call        *)
(*   zreads  the number of Z-axis samples read so far in the call          *)
(*   log     the bus operations and delays of the call, in program order   *)
(***************************************************************************)
EXTENDS Integers, Sequences, FiniteSets, TLC

VARIABLES config, regs, ignore, calls, last

vars == <<config, regs, ignore, calls, last>>

---------------------------------------------------------------------------
(* Bounds of the model.                                                    *)

\* Number of driver calls in one behaviour.
MaxCalls == 2
\* Settings 0..MaxProfile of the fields that are not ODR or bandwidth
\* (setting 0 is Config::default()).
MaxProfile == 1
\* A bus failure is injected at one of the first MaxFailAt or of the last
\* MaxFailAt bus operations of a call.
MaxFailAt == 3
\* Number of calls in one sequence of calls on a bus that does not fail.
MaxSequence == 3

---------------------------------------------------------------------------
(* params.rs: the enumerations.  Each is the sequence of its variants in   *)
(* discriminant order (the discriminants are 0, 1, 2, ... in every enum).  *)

OutputDataRate == <<"Od400Hz", "Od800Hz", "Od1600Hz", "Od3200Hz", "Od6400Hz">>
Bandwidth == <<"Bw200Hz", "Bw400Hz", "Bw800Hz", "Bw1600Hz", "Bw3200Hz">>
WakeUpRate ==
    <<"Ms52", "Ms104", "Ms208", "Ms512", "Ms2048", "Ms4096", "Ms8192", "Ms24576">>
ExtClk == <<"Disabled", "Enabled">>
ExtSync == <<"Disabled", "Enabled">>
I2cHsmEn == <<"Disabled", "Enabled">>
UserOrDisable == <<"Enabled", "Disabled">>
AutoSleep == <<"Disabled", "Enabled">>
LowNoise == <<"Normal", "LowNoise">>
SettleFilter == <<"Ms370", "Ms16">>
InstantOnThreshold == <<"Low", "High">>
LinkLoopMode == <<"Default", "Linked", "Loop">>
PowerMode == <<"Standby", "WakeUp", "InstantOn", "Measure">>
LpfDisable == <<"Enabled", "Disabled">>
HpfDisable == <<"Enabled", "Disabled">>

\* What a getter meets when the field's bits are no variant's discriminant.
InvalidBitPattern == "InvalidBitPattern"

Variants(E) == {E[i] : i \in 1..Len(E)}

\* Specifier::into_bytes: the discriminant of a variant.
IntoBits(E, v) == (CHOOSE i \in 1..Len(E) : E[i] = v) - 1

\* Specifier::from_bytes: the variant of a bit pattern, when there is one.
FromBits(E, b) == IF b + 1 <= Len(E) THEN E[b + 1] ELSE InvalidBitPattern

\* OutputDataRate::hz
hz(self) ==
    CASE self = "Od400Hz" -> 400
      [] self = "Od800Hz" -> 800
      [] self = "Od1600Hz" -> 1600
      [] self = "Od3200Hz" -> 3200
      [] self = "Od6400Hz" -> 6400

\* Bandwidth::max_hz
max_hz(self) ==
    CASE self = "Bw200Hz" -> 200
      [] self = "Bw400Hz" -> 400
      [] self = "Bw800Hz" -> 800
      [] self = "Bw1600Hz" -> 1600
      [] self = "Bw3200Hz" -> 3200

\* SettleFilter::millis
millis(self) ==
    CASE self = "Ms370" -> 370
      [] self = "Ms16" -> 16

---------------------------------------------------------------------------
(* registers.rs: addresses, the reset command and the bitfield structs.    *)
(* A register value is the record of its fields' raw bits, least           *)
(* significant field first, skipped bits included; the typed getters and   *)
(* setters convert between bits and variants.                              *)

REG_ZDATA_H == 12
REG_TIMING == 61
REG_MEASURE == 62
REG_POWER_CTL == 63
REG_SELF_TEST == 64
REG_RESET == 65
RESET_COMMAND == 82

\* Bits lo .. lo+width-1 of a byte.
Field(b, lo, width) == (b \div (2 ^ lo)) % (2 ^ width)

BoolBits(b) == IF b THEN 1 ELSE 0

\* Timing::from(u8)
TimingFrom(value) ==
    [ext_sync |-> Field(value, 0, 1),
     ext_clk |-> Field(value, 1, 1),
     wake_up_rate |-> Field(value, 2, 3),
     odr |-> Field(value, 5, 3)]

\* u8::from(Timing)
TimingInto(t) == t.ext_sync + 2 * t.ext_clk + 4 * t.wake_up_rate + 32 * t.odr

\* Measure::from(u8)
MeasureFrom(value) ==
    [bandwidth |-> Field(value, 0, 3),
     low_noise |-> Field(value, 3, 1),
     link_loop_mode |-> Field(value, 4, 2),
     autosleep |-> Field(value, 6, 1),
     user_or_disable |-> Field(value, 7, 1)]

\* u8::from(Measure)
MeasureInto(m) ==
    m.bandwidth + 8 * m.low_noise + 16 * m.link_loop_mode
        + 64 * m.autosleep + 128 * m.user_or_disable

\* PowerControl::from(u8)
PowerControlFrom(value) ==
    [mode |-> Field(value, 0, 2),
     hpf_disable |-> Field(value, 2, 1),
     lpf_disable |-> Field(value, 3, 1),
     filter_settle |-> Field(value, 4, 1),
     instant_on_threshold |-> Field(value, 5, 1),
     skip6 |-> Field(value, 6, 1),
     i2c_high_speed_enable |-> Field(value, 7, 1)]

\* u8::from(PowerControl) with the skipped bit 6 encoded as 0.
PowerControlIntoNoSkip(p) ==
    p.mode + 4 * p.hpf_disable + 8 * p.lpf_disable + 16 * p.filter_settle
        + 32 * p.instant_on_threshold + 128 * p.i2c_high_speed_enable

\* u8::from(PowerControl)
PowerControlInto(p) ==
    p.mode + 4 * p.hpf_disable + 8 * p.lpf_disable + 16 * p.filter_settle
        + 32 * p.instant_on_threshold + 64 * p.skip6
        + 128 * p.i2c_high_speed_enable

\* SelfTest::from(u8)
SelfTestFrom(value) ==
    [st |-> Field(value, 0, 1),
     st_done |-> Field(value, 1, 1),
     user_st |-> Field(value, 2, 1),
     skip3 |-> Field(value, 3, 5)]

\* u8::from(SelfTest)
SelfTestInto(s) == s.st + 2 * s.st_done + 4 * s.user_st + 8 * s.skip3

\* Status::from(u8)
StatusFrom(value) ==
    [data_ready |-> Field(value, 0, 1),
     fifo_ready |-> Field(value, 1, 1),
     fifo_full |-> Field(value, 2, 1),
     fifo_overrun |-> Field(value, 3, 1),
     skip4 |-> Field(value, 4, 1),
     user_nvm_busy |-> Field(value, 5, 1),
     awake |-> Field(value, 6, 1),
     err_user_regs |-> Field(value, 7, 1)]

\* u8::from(Status)
StatusInto(s) ==
    s.data_ready + 2 * s.fifo_ready + 4 * s.fifo_full + 8 * s.fifo_overrun
        + 16 * s.skip4 + 32 * s.user_nvm_busy + 64 * s.awake + 128 * s.err_user_regs

\* The specifier of a bool field: one bit, false = 0, true = 1.
Flag == <<"false", "true">>

\* A #[skip] field has no getter and no setter.
Skip == <<>>

FieldOf(name, lo, width, type) ==
    [name |-> name, lo |-> lo, width |-> width, type |-> type]

\* The five register kinds and the fields of their #[bitfield] structs,
\* least significant first.
RegisterKinds == {"Timing", "Measure", "PowerControl", "SelfTest", "Status"}

Layout(kind) ==
    CASE kind = "Timing" ->
             <<FieldOf("ext_sync", 0, 1, ExtSync), FieldOf("ext_clk", 1, 1, ExtClk),
               FieldOf("wake_up_rate", 2, 3, WakeUpRate),
               FieldOf("odr", 5, 3, OutputDataRate)>>
      [] kind = "Measure" ->
             <<FieldOf("bandwidth", 0, 3, Bandwidth), FieldOf("low_noise", 3, 1, LowNoise),
               FieldOf("link_loop_mode", 4, 2, LinkLoopMode),
               FieldOf("autosleep", 6, 1, Flag), FieldOf("user_or_disable", 7, 1, Flag)>>
      [] kind = "PowerControl" ->
             <<FieldOf("mode", 0, 2, PowerMode), FieldOf("hpf_disable", 2, 1, Flag),
               FieldOf("lpf_disable", 3, 1, Flag),
               FieldOf("filter_settle", 4, 1, SettleFilter),
               FieldOf("instant_on_threshold", 5, 1, InstantOnThreshold),
               FieldOf("skip6", 6, 1, Skip),
               FieldOf("i2c_high_speed_enable", 7, 1, Flag)>>
      [] kind = "SelfTest" ->
             <<FieldOf("st", 0, 1, Flag), FieldOf("st_done", 1, 1, Flag),
               FieldOf("user_st", 2, 1, Flag), FieldOf("skip3", 3, 5, Skip)>>
      [] kind = "Status" ->
             <<FieldOf("data_ready", 0, 1, Flag), FieldOf("fifo_ready", 1, 1, Flag),
               FieldOf("fifo_full", 2, 1, Flag), FieldOf("fifo_overrun", 3, 1, Flag),
               FieldOf("skip4", 4, 1, Skip), FieldOf("user_nvm_busy", 5, 1, Flag),
               FieldOf("awake", 6, 1, Flag), FieldOf("err_user_regs", 7, 1, Flag)>>

\* R::from(u8) of a register kind.
From(kind, value) ==
    CASE kind = "Timing" -> TimingFrom(value)
      [] kind = "Measure" -> MeasureFrom(value)
      [] kind = "PowerControl" -> PowerControlFrom(value)
      [] kind = "SelfTest" -> SelfTestFrom(value)
      [] kind = "Status" -> StatusFrom(value)

\* u8::from(R) of a register kind.
Into(kind, r) ==
    CASE kind = "Timing" -> TimingInto(r)
      [] kind = "Measure" -> MeasureInto(r)
      [] kind = "PowerControl" -> PowerControlInto(r)
      [] kind = "SelfTest" -> SelfTestInto(r)
      [] kind = "Status" -> StatusInto(r)

\* The getter of field f on a register value: the variant its bits stand
\* for.
Getter(r, f) == FromBits(f.type, r[f.name])

\* The setter of a field applied to a register just constructed (R::new())
\* in place of the register it was called on.
SetterOnNew(kind, r, f, v) == [From(kind, 0) EXCEPT ![f.name] = IntoBits(f.type, v)]

\* The setter of field f on a register value: the field's bits become the
\* discriminant of v.
Setter(kind, r, f, v) == [r EXCEPT ![f.name] = IntoBits(f.type, v)]

---------------------------------------------------------------------------
(* config.rs: the Config value and its validation.                         *)

\* Config::default()
DefaultConfig ==
    [odr |-> "Od400Hz",
     wakeup_rate |-> "Ms52",
     ext_clk |-> "Disabled",
     ext_sync |-> "Disabled",
     user_or_disable |-> "Enabled",
     autosleep |-> "Disabled",
     linkloop |-> "Default",
     low_noise |-> "Normal",
     bandwidth |-> "Bw200Hz",
     i2c_hsm_en |-> "Disabled",
     instant_on_threshold |-> "Low",
     filter_settle |-> "Ms16",
     lpf_disable |-> "Enabled",
     hpf_disable |-> "Enabled",
     power_mode |-> "Standby"]

\* validate with the comparison turned inclusive: a bandwidth of exactly
\* half the ODR is refused as well.
validate_inclusive(self) ==
    IF max_hz(self.bandwidth) * 2 >= hz(self.odr)
    THEN "NyquistViolation"
    ELSE "Ok"

\* validate that accepts every Config.
validate_skipped(self) == "Ok"

\* Config::validate: "Ok" or the ConfigError.
validate(self) ==
    IF max_hz(self.bandwidth) * 2 > hz(self.odr)
    THEN "NyquistViolation"
    ELSE "Ok"

---------------------------------------------------------------------------
(* The bus (interface/mod.rs, Adxl372Interface) and the device behind it.  *)

DeviceRegs == {REG_TIMING, REG_MEASURE, REG_POWER_CTL, REG_SELF_TEST}

\* RESET_VALUE of Timing, Measure, PowerControl and SelfTest: Some(0x00).
ResetRegs == [r \in DeviceRegs |-> 0]

\* The bit of each configuration register that a device with the quirk
\* ignores on a write: EXT_SYNC, LOW_NOISE, INSTANT_ON_THRESH (all one-bit
\* fields, so the stored byte still decodes to defined variants).
IgnoredBit(register) ==
    CASE register = REG_TIMING -> 0
      [] register = REG_MEASURE -> 3
      [] register = REG_POWER_CTL -> 5
      [] OTHER -> -1

\* Byte v with bit k taken from byte old.
KeepBit(old, v, k) == v - Field(v, k, 1) * (2 ^ k) + Field(old, k, 1) * (2 ^ k)

\* What the device holds after a successful write of value to register.
DeviceWrite(w, register, value) ==
    IF register = REG_RESET
    THEN IF value = RESET_COMMAND THEN ResetRegs ELSE w.regs
    ELSE IF register \notin DeviceRegs
    THEN w.regs
    ELSE IF w.ignore /\ IgnoredBit(register) >= 0
    THEN [w.regs EXCEPT
             ![register] = KeepBit(w.regs[register], value, IgnoredBit(register))]
    ELSE [w.regs EXCEPT ![register] = value]

\* What the device answers to a read of register.  SELF_TEST reports the
\* ST bit the driver wrote (unless the hardware's ST bit does not read
\* back) and, once the armed hardware has finished, ST_DONE and USER_ST.
DeviceRead(w, register) ==
    IF register = REG_SELF_TEST
    THEN LET stored == w.regs[REG_SELF_TEST]
             armed == Field(stored, 0, 1) = 1
             done == armed /\ w.zreads >= w.script.done_after
         IN  (IF w.script.st_reads_back THEN stored ELSE stored - Field(stored, 0, 1))
                 + (IF done THEN 2 + 4 * BoolBits(w.script.user_st) ELSE 0)
    ELSE w.regs[register]

\* The n-th Z-axis sample (n = 1, 2, ...) the hardware produces.
SampleAt(script, n) == IF n <= script.switch_at THEN script.lo ELSE script.hi

LogEntry(op, register, value, ok) ==
    [op |-> op, reg |-> register, val |-> value, ok |-> ok]

\* Adxl372Interface::read_register
read_register(w, register) ==
    LET n == w.ops + 1
    IN  IF n \in w.fail
        THEN [w |-> [w EXCEPT !.ops = n,
                              !.log = Append(@, LogEntry("read", register, 0, FALSE))],
              ok |-> FALSE, val |-> 0]
        ELSE LET v == DeviceRead(w, register)
             IN  [w |-> [w EXCEPT !.ops = n,
                                  !.log = Append(@, LogEntry("read", register, v, TRUE))],
                  ok |-> TRUE, val |-> v]

\* Adxl372Interface::write_register.  A write the bus reports as failed
\* has not reached the device.
write_register(w, register, value) ==
    LET n == w.ops + 1
    IN  IF n \in w.fail
        THEN [w |-> [w EXCEPT !.ops = n,
                              !.log = Append(@, LogEntry("write", register, value, FALSE))],
              ok |-> FALSE]
        ELSE [w |-> [w EXCEPT !.ops = n,
                              !.regs = DeviceWrite(w, register, value),
                              !.log = Append(@, LogEntry("write", register, value, TRUE))],
              ok |-> TRUE]

\* DelayNs::delay_ms / delay_ns: recorded in program order.
delay_ms(w, ms) == [w EXCEPT !.log = Append(@, LogEntry("delay_ms", 0, ms, TRUE))]
delay_ns(w, ns) == [w EXCEPT !.log = Append(@, LogEntry("delay_ns", 0, ns, TRUE))]

Result(w, res) == [w |-> w, res |-> res]

---------------------------------------------------------------------------
(* device.rs: the configuration engine.                                    *)

\* Option::None of an optional argument.
None == "None"

\* Adxl372::reset
\* reset returning the cached Config to its defaults with the device.
reset_clearing_cache(w) ==
    LET Written(r) ==
            IF r.ok THEN Result([r.w EXCEPT !.config = DefaultConfig], "Ok")
            ELSE Result(r.w, "Interface")
    IN  Written(write_register(w, REG_RESET, RESET_COMMAND))

\* reset writing the command a second time when the first write fails.
reset_retrying(w) ==
    LET Written(r) == Result(r.w, IF r.ok THEN "Ok" ELSE "Interface")
        Retried(r) ==
            IF r.ok THEN Written(r)
            ELSE Written(write_register(r.w, REG_RESET, RESET_COMMAND))
    IN  Retried(write_register(w, REG_RESET, RESET_COMMAND))

reset(w) ==
    LET Written(r) == Result(r.w, IF r.ok THEN "Ok" ELSE "Interface")
    IN  Written(write_register(w, REG_RESET, RESET_COMMAND))

\* The closure of configure_timing (and, with every field given, of
\* apply_timing_config) applied to the decoded register.
TimingMutate(timing, u) ==
    [odr |-> IF u.odr # None THEN IntoBits(OutputDataRate, u.odr) ELSE timing.odr,
     wake_up_rate |-> IF u.wakeup_rate # None
                      THEN IntoBits(WakeUpRate, u.wakeup_rate)
                      ELSE timing.wake_up_rate,
     ext_clk |-> IF u.ext_clk # None THEN IntoBits(ExtClk, u.ext_clk) ELSE timing.ext_clk,
     ext_sync |-> IF u.ext_sync # None
                  THEN IntoBits(ExtSync, u.ext_sync)
                  ELSE timing.ext_sync]

\* update_timing_config without its Nyquist test.
TimingNeverRejected(cfg, new_odr) == FALSE

\* The Nyquist test of update_timing_config on the prospective ODR.
TimingRejected(cfg, new_odr) == max_hz(cfg.bandwidth) * 2 > hz(new_odr)

\* A read-modify-write cycle that writes the register back every time.
AlwaysWrite(updated, current) == TRUE

\* Whether a read-modify-write cycle issues its write.
NeedsWrite(updated, current) == updated # current

\* The cache refresh of update_timing_config with the ext_sync assignment
\* left out.
TimingRefreshStale(cfg, timing) ==
    [cfg EXCEPT !.odr = FromBits(OutputDataRate, timing.odr),
                !.wakeup_rate = FromBits(WakeUpRate, timing.wake_up_rate),
                !.ext_clk = FromBits(ExtClk, timing.ext_clk)]

\* The cache refresh of update_timing_config.
TimingRefresh(cfg, timing) ==
    [cfg EXCEPT !.odr = FromBits(OutputDataRate, timing.odr),
                !.wakeup_rate = FromBits(WakeUpRate, timing.wake_up_rate),
                !.ext_clk = FromBits(ExtClk, timing.ext_clk),
                !.ext_sync = FromBits(ExtSync, timing.ext_sync)]

\* The write of a read-modify-write cycle: issued unless the recomputed
\* byte equals the byte read.
WriteIfChanged(w, register, updated, current) ==
    IF NeedsWrite(updated, current)
    THEN write_register(w, register, updated)
    ELSE [w |-> w, ok |-> TRUE]

\* update_timing_config with the Nyquist test moved behind the write.
update_timing_config_late_check(w, u) ==
    LET Written(wr, timing) ==
            IF ~wr.ok THEN Result(wr.w, "Interface")
            ELSE IF TimingRejected(wr.w.config, FromBits(OutputDataRate, timing.odr))
            THEN Result(wr.w, "InvalidConfig")
            ELSE Result([wr.w EXCEPT !.config = TimingRefresh(@, timing)], "Ok")
        Mutated(rd, timing) ==
            IF FromBits(OutputDataRate, timing.odr) = InvalidBitPattern
            THEN Result(rd.w, "Panic")
            ELSE Written(WriteIfChanged(rd.w, REG_TIMING, TimingInto(timing), rd.val),
                         timing)
        Read(rd) ==
            IF ~rd.ok THEN Result(rd.w, "Interface")
            ELSE Mutated(rd, TimingMutate(TimingFrom(rd.val), u))
    IN  Read(read_register(w, REG_TIMING))

\* Adxl372::update_timing_config
update_timing_config(w, u) ==
    LET Written(wr, timing) ==
            IF ~wr.ok THEN Result(wr.w, "Interface")
            ELSE Result([wr.w EXCEPT !.config = TimingRefresh(@, timing)], "Ok")
        Mutated(rd, timing) ==
            IF FromBits(OutputDataRate, timing.odr) = InvalidBitPattern
            THEN Result(rd.w, "Panic")
            ELSE IF TimingRejected(rd.w.config, FromBits(OutputDataRate, timing.odr))
            THEN Result(rd.w, "InvalidConfig")
            ELSE Written(WriteIfChanged(rd.w, REG_TIMING, TimingInto(timing), rd.val),
                         timing)
        Read(rd) ==
            IF ~rd.ok THEN Result(rd.w, "Interface")
            ELSE Mutated(rd, TimingMutate(TimingFrom(rd.val), u))
    IN  Read(read_register(w, REG_TIMING))

\* Adxl372::configure_timing
configure_timing(w, odr, wakeup_rate, ext_clk, ext_sync) ==
    update_timing_config(w,
        [odr |-> odr, wakeup_rate |-> wakeup_rate, ext_clk |-> ext_clk,
         ext_sync |-> ext_sync])

\* Adxl372::apply_timing_config
apply_timing_config(w, c) ==
    update_timing_config(w,
        [odr |-> c.odr, wakeup_rate |-> c.wakeup_rate, ext_clk |-> c.ext_clk,
         ext_sync |-> c.ext_sync])

\* The closure of configure_measurement (and of apply_measurement_config).
MeasureMutate(measure, u) ==
    [bandwidth |-> IF u.bandwidth # None
                   THEN IntoBits(Bandwidth, u.bandwidth)
                   ELSE measure.bandwidth,
     low_noise |-> IF u.low_noise # None
                   THEN IntoBits(LowNoise, u.low_noise)
                   ELSE measure.low_noise,
     link_loop_mode |-> IF u.linkloop # None
                        THEN IntoBits(LinkLoopMode, u.linkloop)
                        ELSE measure.link_loop_mode,
     autosleep |-> IF u.autosleep # None
                   THEN BoolBits(u.autosleep = "Enabled")
                   ELSE measure.autosleep,
     user_or_disable |-> IF u.user_or_disable # None
                         THEN BoolBits(u.user_or_disable = "Disabled")
                         ELSE measure.user_or_disable]

\* The Nyquist test of update_measure_config with the comparison turned
\* inclusive.
MeasureRejectedInclusive(cfg, new_bandwidth) ==
    max_hz(new_bandwidth) * 2 >= hz(cfg.odr)

\* The Nyquist test of update_measure_config on the prospective bandwidth.
MeasureRejected(cfg, new_bandwidth) == max_hz(new_bandwidth) * 2 > hz(cfg.odr)

\* The cache refresh of update_measure_config.
MeasureRefresh(cfg, measure) ==
    [cfg EXCEPT !.bandwidth = FromBits(Bandwidth, measure.bandwidth),
                !.low_noise = FromBits(LowNoise, measure.low_noise),
                !.linkloop = FromBits(LinkLoopMode, measure.link_loop_mode),
                !.autosleep = IF measure.autosleep = 1 THEN "Enabled" ELSE "Disabled",
                !.user_or_disable =
                    IF measure.user_or_disable = 1 THEN "Disabled" ELSE "Enabled"]

\* Adxl372::update_measure_config.  The link_loop_mode getter runs after
\* the write and after the first two cache fields have been assigned.
update_measure_config(w, u) ==
    LET Written(wr, measure) ==
            IF ~wr.ok THEN Result(wr.w, "Interface")
            ELSE IF FromBits(LinkLoopMode, measure.link_loop_mode) = InvalidBitPattern
            THEN Result([wr.w EXCEPT
                            !.config.bandwidth = FromBits(Bandwidth, measure.bandwidth),
                            !.config.low_noise = FromBits(LowNoise, measure.low_noise)],
                        "Panic")
            ELSE Result([wr.w EXCEPT !.config = MeasureRefresh(@, measure)], "Ok")
        Mutated(rd, measure) ==
            IF FromBits(Bandwidth, measure.bandwidth) = InvalidBitPattern
            THEN Result(rd.w, "Panic")
            ELSE IF MeasureRejected(rd.w.config, FromBits(Bandwidth, measure.bandwidth))
            THEN Result(rd.w, "InvalidConfig")
            ELSE Written(WriteIfChanged(rd.w, REG_MEASURE, MeasureInto(measure), rd.val),
                         measure)
        Read(rd) ==
            IF ~rd.ok THEN Result(rd.w, "Interface")
            ELSE Mutated(rd, MeasureMutate(MeasureFrom(rd.val), u))
    IN  Read(read_register(w, REG_MEASURE))

\* Adxl372::configure_measurement
configure_measurement(w, user_or_disable, autosleep, linkloop, low_noise, bandwidth) ==
    update_measure_config(w,
        [user_or_disable |-> user_or_disable, autosleep |-> autosleep,
         linkloop |-> linkloop, low_noise |-> low_noise, bandwidth |-> bandwidth])

\* Adxl372::apply_measurement_config
apply_measurement_config(w, c) ==
    update_measure_config(w,
        [user_or_disable |-> c.user_or_disable, autosleep |-> c.autosleep,
         linkloop |-> c.linkloop, low_noise |-> c.low_noise,
         bandwidth |-> c.bandwidth])

\* The closure of configure_power_ctl (and of apply_power_control_config
\* and force_power_mode).
PowerMutate(power, u) ==
    [mode |-> IF u.mode # None THEN IntoBits(PowerMode, u.mode) ELSE power.mode,
     hpf_disable |-> IF u.hpf_disable # None
                     THEN BoolBits(u.hpf_disable = "Disabled")
                     ELSE power.hpf_disable,
     lpf_disable |-> IF u.lpf_disable # None
                     THEN BoolBits(u.lpf_disable = "Disabled")
                     ELSE power.lpf_disable,
     filter_settle |-> IF u.filter_settle # None
                       THEN IntoBits(SettleFilter, u.filter_settle)
                       ELSE power.filter_settle,
     instant_on_threshold |-> IF u.instant_on_threshold # None
                              THEN IntoBits(InstantOnThreshold, u.instant_on_threshold)
                              ELSE power.instant_on_threshold,
     skip6 |-> power.skip6,
     i2c_high_speed_enable |-> IF u.i2c_hsm_en # None
                               THEN BoolBits(u.i2c_hsm_en = "Enabled")
                               ELSE power.i2c_high_speed_enable]

\* Adxl372::mutate_power_control: the result carries the mutated register.
mutate_power_control(w, u) ==
    LET Written(wr, power) ==
            [w |-> wr.w, res |-> IF wr.ok THEN "Ok" ELSE "Interface", power |-> power]
        Mutated(rd, power) ==
            Written(WriteIfChanged(rd.w, REG_POWER_CTL, PowerControlInto(power), rd.val),
                    power)
        Read(rd) ==
            IF ~rd.ok
            THEN [w |-> rd.w, res |-> "Interface", power |-> PowerControlFrom(0)]
            ELSE Mutated(rd, PowerMutate(PowerControlFrom(rd.val), u))
    IN  Read(read_register(w, REG_POWER_CTL))

\* The cache refresh of update_power_control.
PowerRefresh(cfg, power) ==
    [cfg EXCEPT !.power_mode = FromBits(PowerMode, power.mode),
                !.hpf_disable = IF power.hpf_disable = 1 THEN "Disabled" ELSE "Enabled",
                !.lpf_disable = IF power.lpf_disable = 1 THEN "Disabled" ELSE "Enabled",
                !.filter_settle = FromBits(SettleFilter, power.filter_settle),
                !.instant_on_threshold =
                    FromBits(InstantOnThreshold, power.instant_on_threshold),
                !.i2c_hsm_en =
                    IF power.i2c_high_speed_enable = 1 THEN "Enabled" ELSE "Disabled"]

\* update_power_control refreshing the cache whatever mutate_power_control
\* returned.
update_power_control_eager(w, u) ==
    LET Mutated(r) == Result([r.w EXCEPT !.config = PowerRefresh(@, r.power)], r.res)
    IN  Mutated(mutate_power_control(w, u))

\* Adxl372::update_power_control
update_power_control(w, u) ==
    LET Mutated(r) ==
            IF r.res # "Ok" THEN Result(r.w, r.res)
            ELSE Result([r.w EXCEPT !.config = PowerRefresh(@, r.power)], "Ok")
    IN  Mutated(mutate_power_control(w, u))

\* Adxl372::configure_power_ctl
configure_power_ctl(w, i2c_hsm_en, instant_on_threshold, filter_settle, lpf_disable, hpf_disable, mode) ==
    update_power_control(w,
        [i2c_hsm_en |-> i2c_hsm_en, instant_on_threshold |-> instant_on_threshold,
         filter_settle |-> filter_settle, lpf_disable |-> lpf_disable,
         hpf_disable |-> hpf_disable, mode |-> mode])

\* Adxl372::apply_power_control_config
apply_power_control_config(w, c) ==
    update_power_control(w,
        [i2c_hsm_en |-> c.i2c_hsm_en, instant_on_threshold |-> c.instant_on_threshold,
         filter_settle |-> c.filter_settle, lpf_disable |-> c.lpf_disable,
         hpf_disable |-> c.hpf_disable, mode |-> c.power_mode])

\* Adxl372::force_power_mode
force_power_mode(w, mode) ==
    LET Mutated(r) == Result(r.w, r.res)
    IN  Mutated(mutate_power_control(w,
            [i2c_hsm_en |-> None, instant_on_threshold |-> None,
             filter_settle |-> None, lpf_disable |-> None,
             hpf_disable |-> None, mode |-> mode]))

\* Adxl372::wait_filter_settle
wait_filter_settle(w) == delay_ms(w, millis(w.config.filter_settle))

\* configure with the MEASURE cycle run before the TIMING cycle.
configure_measure_first(w, c) ==
    LET Programmed(r3) ==
            IF r3.res # "Ok" THEN r3
            ELSE IF w.config.power_mode # "Standby" /\ c.power_mode = "Measure"
            THEN Result(wait_filter_settle([r3.w EXCEPT !.config = c]), "Ok")
            ELSE Result([r3.w EXCEPT !.config = c], "Ok")
        Timed(r2) ==
            IF r2.res # "Ok" THEN r2 ELSE Programmed(apply_power_control_config(r2.w, c))
        Measured(r1) ==
            IF r1.res # "Ok" THEN r1 ELSE Timed(apply_timing_config(r1.w, c))
    IN  IF validate(c) # "Ok" THEN Result(w, "InvalidConfig")
        ELSE Measured(apply_measurement_config(w, c))

\* Adxl372::configure
configure(w, c) ==
    LET Programmed(r3) ==
            IF r3.res # "Ok" THEN r3
            ELSE IF w.config.power_mode # "Standby" /\ c.power_mode = "Measure"
            THEN Result(wait_filter_settle([r3.w EXCEPT !.config = c]), "Ok")
            ELSE Result([r3.w EXCEPT !.config = c], "Ok")
        Measured(r2) ==
            IF r2.res # "Ok" THEN r2 ELSE Programmed(apply_power_control_config(r2.w, c))
        Timed(r1) ==
            IF r1.res # "Ok" THEN r1 ELSE Measured(apply_measurement_config(r1.w, c))
    IN  IF validate(c) # "Ok" THEN Result(w, "InvalidConfig")
        ELSE Timed(apply_timing_config(w, c))

---------------------------------------------------------------------------
(* device.rs: raw axis reads.                                              *)

\* i16::from_be_bytes
I16FromBeBytes(msb, lsb) ==
    LET u == 256 * msb + lsb IN IF u >= 32768 THEN u - 65536 ELSE u

\* unpack_axis shifting the word as an unsigned one.
unpack_axis_logical(msb, lsb) == (256 * msb + lsb) \div 16

\* Adxl372::unpack_axis: arithmetic shift right by 4.
unpack_axis(msb, lsb) == I16FromBeBytes(msb, lsb) \div 16

\* The two data bytes the hardware holds for a 12-bit sample z: z << 4,
\* big-endian (sample_bytes of the self-test's mock interface).
SampleBytes(z) == (z * 16) % 65536

\* Adxl372Interface::read_many of the two bytes at REG_ZDATA_H.
read_many_zdata(w) ==
    LET n == w.ops + 1
        word == SampleBytes(SampleAt(w.script, w.zreads + 1))
    IN  IF n \in w.fail
        THEN [w |-> [w EXCEPT !.ops = n,
                              !.log = Append(@, LogEntry("read_many", REG_ZDATA_H, 0, FALSE))],
              ok |-> FALSE, val |-> 0]
        ELSE [w |-> [w EXCEPT !.ops = n,
                              !.zreads = @ + 1,
                              !.log = Append(@, LogEntry("read_many", REG_ZDATA_H, word, TRUE))],
              ok |-> TRUE, val |-> word]

\* Adxl372::read_z_raw
read_z_raw(w) ==
    LET Read(r) ==
            [w |-> r.w, ok |-> r.ok, val |-> unpack_axis(r.val \div 256, r.val % 256)]
    IN  Read(read_many_zdata(w))

---------------------------------------------------------------------------
(* self_test.rs                                                            *)

SELF_TEST_THRESHOLD_LSB == 5
SELF_TEST_TIMEOUT_MS == 500
SELF_TEST_ACTIVATION_GUARD_MS == 2
SELF_TEST_SAMPLE_PERIOD_NS == 2500000
SELF_TEST_SAMPLES_PER_WINDOW == 20
\* SELF_TEST_FILTER_SETTLE
SELF_TEST_FILTER_SETTLE == "Ms370"
\* SELF_TEST_SETTLE_DELAY_MS
SELF_TEST_SETTLE_DELAY_MS == millis(SELF_TEST_FILTER_SETTLE)

\* SelfTestReport::default()
DefaultReport ==
    [passed |-> FALSE, baseline_avg_z |-> 0, stimulated_avg_z |-> 0,
     delta_z_lsb |-> 0, samples_per_window |-> 0, user_flag |-> FALSE,
     timed_out |-> FALSE]

\* i16::saturating_add
saturating_add_i16(a, b) ==
    IF a + b > 32767 THEN 32767 ELSE IF a + b < -32768 THEN -32768 ELSE a + b

\* u16::saturating_add
saturating_add_u16(a, b) == IF a + b > 65535 THEN 65535 ELSE a + b

\* u32::saturating_add on elapsed_ns.  The loop stops adding once the sum
\* reaches 500,000,000, far below u32::MAX, so the saturation never
\* applies (u32::MAX itself is beyond the integers TLC computes with).
saturating_add_u32(a, b) == a + b

\* Rust's integer division: the quotient truncated toward zero.
DivTrunc(a, b) == IF a >= 0 THEN a \div b ELSE -((-a) \div b)

Min(a, b) == IF a <= b THEN a ELSE b

Abs(a) == IF a < 0 THEN -a ELSE a

\* update_self_test_register with the closure |reg| reg.set_st(st)
update_self_test_register(w, st) ==
    LET Written(wr) == Result(wr.w, IF wr.ok THEN "Ok" ELSE "Interface")
        Read(rd) ==
            IF ~rd.ok THEN Result(rd.w, "Interface")
            ELSE Written(WriteIfChanged(rd.w, REG_SELF_TEST,
                     SelfTestInto([SelfTestFrom(rd.val) EXCEPT !.st = BoolBits(st)]),
                     rd.val))
    IN  Read(read_register(w, REG_SELF_TEST))

\* trigger_self_test
trigger_self_test(w) == update_self_test_register(w, TRUE)

\* clear_self_test_trigger writing the register as zero.
clear_self_test_trigger_zeroing(w) ==
    LET Written(wr) == Result(wr.w, IF wr.ok THEN "Ok" ELSE "Interface")
        Read(rd) ==
            IF ~rd.ok THEN Result(rd.w, "Interface")
            ELSE Written(WriteIfChanged(rd.w, REG_SELF_TEST, 0, rd.val))
    IN  Read(read_register(w, REG_SELF_TEST))

\* clear_self_test_trigger
clear_self_test_trigger(w) == update_self_test_register(w, FALSE)

\* configure_power_control_for_self_test selecting the 16 ms filter settle.
configure_power_control_for_self_test_short(w) ==
    LET Written(wr) == Result(wr.w, IF wr.ok THEN "Ok" ELSE "Interface")
        Read(rd) ==
            IF ~rd.ok THEN Result(rd.w, "Interface")
            ELSE Written(WriteIfChanged(rd.w, REG_POWER_CTL,
                     PowerControlInto(
                         [PowerControlFrom(rd.val) EXCEPT
                             !.lpf_disable = BoolBits(FALSE),
                             !.mode = IntoBits(PowerMode, "Measure"),
                             !.filter_settle = IntoBits(SettleFilter, "Ms16")]),
                     rd.val))
    IN  Read(read_register(w, REG_POWER_CTL))

\* configure_power_control_for_self_test
configure_power_control_for_self_test(w) ==
    LET Written(wr) == Result(wr.w, IF wr.ok THEN "Ok" ELSE "Interface")
        Read(rd) ==
            IF ~rd.ok THEN Result(rd.w, "Interface")
            ELSE Written(WriteIfChanged(rd.w, REG_POWER_CTL,
                     PowerControlInto(
                         [PowerControlFrom(rd.val) EXCEPT
                             !.lpf_disable = BoolBits(FALSE),
                             !.mode = IntoBits(PowerMode, "Measure"),
                             !.filter_settle =
                                 IntoBits(SettleFilter, SELF_TEST_FILTER_SETTLE)]),
                     rd.val))
    IN  Read(read_register(w, REG_POWER_CTL))

\* read_self_test_register
read_self_test_register(w) ==
    LET Read(rd) == [w |-> rd.w, ok |-> rd.ok, val |-> SelfTestFrom(rd.val)]
    IN  Read(read_register(w, REG_SELF_TEST))

\* The locals of collect_self_test_windows before its loop.
InitialWindows(last_reg) ==
    [baseline_sum |-> 0, baseline_count |-> 0,
     rolling_samples |-> [i \in 0..(SELF_TEST_SAMPLES_PER_WINDOW - 1) |-> 0],
     rolling_sum |-> 0, rolling_count |-> 0, rolling_index |-> 0,
     elapsed_ns |-> 0, timed_out |-> FALSE, last_reg |-> last_reg]

\* Accumulate with a ring that keeps counting the samples it has taken.
AccumulateUnbounded(s, z) ==
    LET target_samples == SELF_TEST_SAMPLES_PER_WINDOW
        baseline_open == s.baseline_count < target_samples
        full == s.rolling_count >= target_samples
        removed == s.rolling_samples[s.rolling_index]
        sum1 == IF full THEN saturating_add_i16(s.rolling_sum, -removed) ELSE s.rolling_sum
    IN  [s EXCEPT
            !.baseline_sum = IF baseline_open THEN saturating_add_i16(@, z) ELSE @,
            !.baseline_count = IF baseline_open THEN saturating_add_u16(@, 1) ELSE @,
            !.rolling_count = saturating_add_u16(@, 1),
            !.rolling_samples = [@ EXCEPT ![s.rolling_index] = z],
            !.rolling_sum = saturating_add_i16(sum1, z),
            !.rolling_index = (@ + 1) % SELF_TEST_SAMPLES_PER_WINDOW,
            !.elapsed_ns = saturating_add_u32(@, SELF_TEST_SAMPLE_PERIOD_NS)]

\* Accumulate with a baseline window that opens behind the first sample.
AccumulateSkippingFirst(s, z) ==
    LET target_samples == SELF_TEST_SAMPLES_PER_WINDOW
        baseline_open == s.baseline_count < target_samples /\ s.rolling_count > 0
        full == s.rolling_count = target_samples
        removed == s.rolling_samples[s.rolling_index]
        sum1 == IF full THEN saturating_add_i16(s.rolling_sum, -removed) ELSE s.rolling_sum
    IN  [s EXCEPT
            !.baseline_sum = IF baseline_open THEN saturating_add_i16(@, z) ELSE @,
            !.baseline_count = IF baseline_open THEN saturating_add_u16(@, 1) ELSE @,
            !.rolling_count = IF full THEN @ ELSE saturating_add_u16(@, 1),
            !.rolling_samples = [@ EXCEPT ![s.rolling_index] = z],
            !.rolling_sum = saturating_add_i16(sum1, z),
            !.rolling_index = (@ + 1) % SELF_TEST_SAMPLES_PER_WINDOW,
            !.elapsed_ns = saturating_add_u32(@, SELF_TEST_SAMPLE_PERIOD_NS)]

\* One sample taken into the two accumulators (the loop body after
\* read_z_raw, up to the inter-sample delay).
Accumulate(s, z) ==
    LET target_samples == SELF_TEST_SAMPLES_PER_WINDOW
        baseline_open == s.baseline_count < target_samples
        full == s.rolling_count = target_samples
        removed == s.rolling_samples[s.rolling_index]
        sum1 == IF full THEN saturating_add_i16(s.rolling_sum, -removed) ELSE s.rolling_sum
    IN  [s EXCEPT
            !.baseline_sum = IF baseline_open THEN saturating_add_i16(@, z) ELSE @,
            !.baseline_count = IF baseline_open THEN saturating_add_u16(@, 1) ELSE @,
            !.rolling_count = IF full THEN @ ELSE saturating_add_u16(@, 1),
            !.rolling_samples = [@ EXCEPT ![s.rolling_index] = z],
            !.rolling_sum = saturating_add_i16(sum1, z),
            !.rolling_index = (@ + 1) % SELF_TEST_SAMPLES_PER_WINDOW,
            !.elapsed_ns = saturating_add_u32(@, SELF_TEST_SAMPLE_PERIOD_NS)]

\* A pass of the loop that reads the status before it checks the timeout.
LoopPassStatusFirst(w, s) ==
    LET Sampled(rd, zr) ==
            IF ~zr.ok THEN [w |-> zr.w, res |-> "Interface", s |-> s, more |-> FALSE]
            ELSE [w |-> delay_ns(zr.w, SELF_TEST_SAMPLE_PERIOD_NS), res |-> "Ok",
                  s |-> Accumulate([s EXCEPT !.last_reg = rd.val], zr.val),
                  more |-> TRUE]
        Status(rd) ==
            IF ~rd.ok THEN [w |-> rd.w, res |-> "Interface", s |-> s, more |-> FALSE]
            ELSE IF s.elapsed_ns >= SELF_TEST_TIMEOUT_MS * 1000000
            THEN [w |-> rd.w, res |-> "Ok",
                  s |-> [s EXCEPT !.timed_out = TRUE, !.last_reg = rd.val],
                  more |-> FALSE]
            ELSE IF rd.val.st_done = 1
            THEN [w |-> rd.w, res |-> "Ok", s |-> [s EXCEPT !.last_reg = rd.val],
                  more |-> FALSE]
            ELSE Sampled(rd, read_z_raw(rd.w))
    IN  Status(read_self_test_register(w))

\* A pass of the loop whose timeout check lets the elapsed time reach the
\* budget and fires only beyond it.
LoopPassLate(w, s) ==
    LET Sampled(rd, zr) ==
            IF ~zr.ok THEN [w |-> zr.w, res |-> "Interface", s |-> s, more |-> FALSE]
            ELSE [w |-> delay_ns(zr.w, SELF_TEST_SAMPLE_PERIOD_NS), res |-> "Ok",
                  s |-> Accumulate([s EXCEPT !.last_reg = rd.val], zr.val),
                  more |-> TRUE]
        Status(rd) ==
            IF ~rd.ok THEN [w |-> rd.w, res |-> "Interface", s |-> s, more |-> FALSE]
            ELSE IF rd.val.st_done = 1
            THEN [w |-> rd.w, res |-> "Ok", s |-> [s EXCEPT !.last_reg = rd.val],
                  more |-> FALSE]
            ELSE Sampled(rd, read_z_raw(rd.w))
    IN  IF s.elapsed_ns > SELF_TEST_TIMEOUT_MS * 1000000
        THEN [w |-> w, res |-> "Ok", s |-> [s EXCEPT !.timed_out = TRUE],
              more |-> FALSE]
        ELSE Status(read_self_test_register(w))

\* One pass of the loop of collect_self_test_windows: the timeout check,
\* the status read, the sample and the inter-sample delay.  more tells
\* whether the loop goes on to another pass (no break, no error).
LoopPass(w, s) ==
    LET Sampled(rd, zr) ==
            IF ~zr.ok THEN [w |-> zr.w, res |-> "Interface", s |-> s, more |-> FALSE]
            ELSE [w |-> delay_ns(zr.w, SELF_TEST_SAMPLE_PERIOD_NS), res |-> "Ok",
                  s |-> Accumulate([s EXCEPT !.last_reg = rd.val], zr.val),
                  more |-> TRUE]
        Status(rd) ==
            IF ~rd.ok THEN [w |-> rd.w, res |-> "Interface", s |-> s, more |-> FALSE]
            ELSE IF rd.val.st_done = 1
            THEN [w |-> rd.w, res |-> "Ok", s |-> [s EXCEPT !.last_reg = rd.val],
                  more |-> FALSE]
            ELSE Sampled(rd, read_z_raw(rd.w))
    IN  IF s.elapsed_ns >= SELF_TEST_TIMEOUT_MS * 1000000
        THEN [w |-> w, res |-> "Ok", s |-> [s EXCEPT !.timed_out = TRUE],
              more |-> FALSE]
        ELSE Status(read_self_test_register(w))

\* The most passes the loop can make: every pass that does not leave the
\* loop adds one sample period to elapsed_ns, and the pass that finds the
\* timeout reached leaves it.
LoopPassLimit == (SELF_TEST_TIMEOUT_MS * 1000000) \div SELF_TEST_SAMPLE_PERIOD_NS + 1

\* Up to n passes from loop state l, stopping at the pass that leaves the
\* loop; the passes are run half by half, which keeps the evaluation flat.
RECURSIVE LoopPasses(_, _)
LoopPasses(l, n) ==
    LET Rest(h) == IF h.more THEN LoopPasses(h, n - n \div 2) ELSE h
    IN  IF n = 1 THEN LoopPass(l.w, l.s) ELSE Rest(LoopPasses(l, n \div 2))

\* The loop of collect_self_test_windows.
SamplingLoop(w, s) ==
    LoopPasses([w |-> w, res |-> "Ok", s |-> s, more |-> TRUE], LoopPassLimit)

\* WindowStats reporting the sums of the windows as their averages.
WindowStatsUndivided(s) ==
    [baseline_avg |-> s.baseline_sum,
     baseline_samples |-> s.baseline_count,
     stimulated_avg |-> s.rolling_sum,
     stimulated_samples |-> s.rolling_count,
     final_reg |-> s.last_reg,
     timed_out |-> s.timed_out \/ s.last_reg.st_done # 1]

\* The averages and flags collect_self_test_windows computes after its loop.
WindowStats(s) ==
    [baseline_avg |-> IF s.baseline_count > 0
                      THEN DivTrunc(s.baseline_sum, s.baseline_count)
                      ELSE 0,
     baseline_samples |-> s.baseline_count,
     stimulated_avg |-> IF s.rolling_count > 0
                        THEN DivTrunc(s.rolling_sum, s.rolling_count)
                        ELSE 0,
     stimulated_samples |-> s.rolling_count,
     final_reg |-> s.last_reg,
     timed_out |-> s.timed_out \/ s.last_reg.st_done # 1]

\* collect_self_test_windows: the SelfTestWindowStats.
collect_self_test_windows(w) ==
    LET Looped(loop) ==
            IF loop.res # "Ok"
            THEN [w |-> loop.w, res |-> loop.res, stats |-> WindowStats(loop.s)]
            ELSE [w |-> loop.w, res |-> "Ok", stats |-> WindowStats(loop.s)]
        First(first) ==
            IF ~first.ok
            THEN [w |-> first.w, res |-> "Interface",
                  stats |-> WindowStats(InitialWindows(first.val))]
            ELSE Looped(SamplingLoop(first.w, InitialWindows(first.val)))
    IN  First(read_self_test_register(w))

\* The report with the timeout left out of the verdict.
VerdictIgnoringTimeout(stats) ==
    LET delta == stats.stimulated_avg - stats.baseline_avg
        user_flag == stats.final_reg.user_st = 1
        displacement_ok == Abs(delta) >= SELF_TEST_THRESHOLD_LSB
    IN  [passed |-> user_flag /\ displacement_ok,
         baseline_avg_z |-> stats.baseline_avg,
         stimulated_avg_z |-> stats.stimulated_avg,
         delta_z_lsb |-> delta,
         samples_per_window |-> Min(stats.baseline_samples, stats.stimulated_samples),
         user_flag |-> user_flag,
         timed_out |-> stats.timed_out]

\* The report with the displacement required to exceed the threshold.
VerdictStrict(stats) ==
    LET delta == stats.stimulated_avg - stats.baseline_avg
        user_flag == stats.final_reg.user_st = 1
        displacement_ok == Abs(delta) > SELF_TEST_THRESHOLD_LSB
    IN  [passed |-> ~stats.timed_out /\ user_flag /\ displacement_ok,
         baseline_avg_z |-> stats.baseline_avg,
         stimulated_avg_z |-> stats.stimulated_avg,
         delta_z_lsb |-> delta,
         samples_per_window |-> Min(stats.baseline_samples, stats.stimulated_samples),
         user_flag |-> user_flag,
         timed_out |-> stats.timed_out]

\* The SelfTestReport execute_self_test_sequence builds from the stats.
Verdict(stats) ==
    LET delta == stats.stimulated_avg - stats.baseline_avg
        user_flag == stats.final_reg.user_st = 1
        displacement_ok == Abs(delta) >= SELF_TEST_THRESHOLD_LSB
    IN  [passed |-> ~stats.timed_out /\ user_flag /\ displacement_ok,
         baseline_avg_z |-> stats.baseline_avg,
         stimulated_avg_z |-> stats.stimulated_avg,
         delta_z_lsb |-> delta,
         samples_per_window |-> Min(stats.baseline_samples, stats.stimulated_samples),
         user_flag |-> user_flag,
         timed_out |-> stats.timed_out]

\* execute_self_test_sequence without the guard delay before the trigger.
execute_self_test_sequence_unguarded(w) ==
    LET Failed(r) == [w |-> r.w, res |-> r.res, report |-> DefaultReport]
        Disarmed(c2, ws) ==
            IF c2.res # "Ok" THEN Failed(c2)
            ELSE [w |-> c2.w, res |-> "Ok", report |-> Verdict(ws.stats)]
        Collected(ws) ==
            IF ws.res # "Ok" THEN Failed(ws)
            ELSE Disarmed(clear_self_test_trigger(ws.w), ws)
        Triggered(t) ==
            IF t.res # "Ok" THEN Failed(t) ELSE Collected(collect_self_test_windows(t.w))
        Cleared(c1) ==
            IF c1.res # "Ok" THEN Failed(c1) ELSE Triggered(trigger_self_test(c1.w))
    IN  Cleared(clear_self_test_trigger(w))

\* execute_self_test_sequence
execute_self_test_sequence(w) ==
    LET Failed(r) == [w |-> r.w, res |-> r.res, report |-> DefaultReport]
        Disarmed(c2, ws) ==
            IF c2.res # "Ok" THEN Failed(c2)
            ELSE [w |-> c2.w, res |-> "Ok", report |-> Verdict(ws.stats)]
        Collected(ws) ==
            IF ws.res # "Ok" THEN Failed(ws)
            ELSE Disarmed(clear_self_test_trigger(ws.w), ws)
        Triggered(t) ==
            IF t.res # "Ok" THEN Failed(t) ELSE Collected(collect_self_test_windows(t.w))
        Cleared(c1) ==
            IF c1.res # "Ok" THEN Failed(c1)
            ELSE Triggered(trigger_self_test(
                     delay_ms(c1.w, SELF_TEST_ACTIVATION_GUARD_MS)))
    IN  Cleared(clear_self_test_trigger(w))

\* run_self_test returning the error of the exit reset when both the sequence
\* and the exit reset fail.
run_self_test_masking(w) ==
    LET Failed(r) ==
            [w |-> r.w, res |-> r.res, report |-> DefaultReport, err |-> r.w.ops]
        ExitReset(rx, e) ==
            IF e.res # "Ok"
            THEN [w |-> rx.w, res |-> IF rx.res # "Ok" THEN rx.res ELSE e.res,
                  report |-> DefaultReport,
                  err |-> IF rx.res # "Ok" THEN rx.w.ops ELSE e.w.ops]
            ELSE IF rx.res # "Ok" THEN Failed(rx)
            ELSE [w |-> rx.w, res |-> "Ok", report |-> e.report, err |-> 0]
        Executed(e) == ExitReset(reset(e.w), e)
        Prepared(p) ==
            IF p.res # "Ok" THEN Failed(p)
            ELSE Executed(execute_self_test_sequence(
                     delay_ms(p.w, SELF_TEST_SETTLE_DELAY_MS)))
        EntryReset(r0) ==
            IF r0.res # "Ok" THEN Failed(r0)
            ELSE Prepared(configure_power_control_for_self_test(r0.w))
    IN  EntryReset(reset(w))

\* run_self_test leaving the device as a successful sequence left it.
run_self_test_single_reset(w) ==
    LET Failed(r) ==
            [w |-> r.w, res |-> r.res, report |-> DefaultReport, err |-> r.w.ops]
        ExitReset(rx, e) ==
            IF e.res # "Ok"
            THEN [w |-> rx.w, res |-> e.res, report |-> DefaultReport,
                  err |-> e.w.ops]
            ELSE IF rx.res # "Ok" THEN Failed(rx)
            ELSE [w |-> rx.w, res |-> "Ok", report |-> e.report, err |-> 0]
        Executed(e) == IF e.res = "Ok" THEN ExitReset(Result(e.w, "Ok"), e) ELSE ExitReset(reset(e.w), e)
        Prepared(p) ==
            IF p.res # "Ok" THEN Failed(p)
            ELSE Executed(execute_self_test_sequence(
                     delay_ms(p.w, SELF_TEST_SETTLE_DELAY_MS)))
        EntryReset(r0) ==
            IF r0.res # "Ok" THEN Failed(r0)
            ELSE Prepared(configure_power_control_for_self_test(r0.w))
    IN  EntryReset(reset(w))

\* run_self_test returning the report of a successful sequence whatever the
\* exit reset returns.
run_self_test_lenient(w) ==
    LET Failed(r) ==
            [w |-> r.w, res |-> r.res, report |-> DefaultReport, err |-> r.w.ops]
        ExitReset(rx, e) ==
            IF e.res # "Ok"
            THEN [w |-> rx.w, res |-> e.res, report |-> DefaultReport,
                  err |-> e.w.ops]
            ELSE [w |-> rx.w, res |-> "Ok", report |-> e.report, err |-> 0]
        Executed(e) == ExitReset(reset(e.w), e)
        Prepared(p) ==
            IF p.res # "Ok" THEN Failed(p)
            ELSE Executed(execute_self_test_sequence(
                     delay_ms(p.w, SELF_TEST_SETTLE_DELAY_MS)))
        EntryReset(r0) ==
            IF r0.res # "Ok" THEN Failed(r0)
            ELSE Prepared(configure_power_control_for_self_test(r0.w))
    IN  EntryReset(reset(w))

\* self_test::run_self_test.  The report of a failed run is a placeholder:
\* the caller receives only the error.  err is the position, among the bus
\* operations of the call, of the operation whose error the call returns
\* (0: none).
run_self_test(w) ==
    LET Failed(r) ==
            [w |-> r.w, res |-> r.res, report |-> DefaultReport, err |-> r.w.ops]
        ExitReset(rx, e) ==
            IF e.res # "Ok"
            THEN [w |-> rx.w, res |-> e.res, report |-> DefaultReport,
                  err |-> e.w.ops]
            ELSE IF rx.res # "Ok" THEN Failed(rx)
            ELSE [w |-> rx.w, res |-> "Ok", report |-> e.report, err |-> 0]
        Executed(e) == ExitReset(reset(e.w), e)
        Prepared(p) ==
            IF p.res # "Ok" THEN Failed(p)
            ELSE Executed(execute_self_test_sequence(
                     delay_ms(p.w, SELF_TEST_SETTLE_DELAY_MS)))
        EntryReset(r0) ==
            IF r0.res # "Ok" THEN Failed(r0)
            ELSE Prepared(configure_power_control_for_self_test(r0.w))
    IN  EntryReset(reset(w))

---------------------------------------------------------------------------
(* device.rs: initialization.                                              *)

POWER_UP_TO_STANDBY_DELAY_MS == 5

\* init without its self-test.
init_untested(w) ==
    LET Reset2(r) == IF r.res # "Ok" THEN r ELSE configure(r.w, r.w.config)
        Forced(f) == IF f.res # "Ok" THEN f ELSE Reset2(reset(f.w))
        Delayed(w0) ==
            IF validate(w0.config) # "Ok" THEN Result(w0, "InvalidConfig")
            ELSE Forced(force_power_mode(w0, "Standby"))
    IN  Delayed(delay_ms(w, POWER_UP_TO_STANDBY_DELAY_MS))

\* init going on to configure whatever the verdict of the self-test is.
init_ignoring_verdict(w) ==
    LET Reset2(r) == IF r.res # "Ok" THEN r ELSE configure(r.w, r.w.config)
        Forced(f) == IF f.res # "Ok" THEN f ELSE Reset2(reset(f.w))
        Tested(t) ==
            IF t.res # "Ok" THEN [w |-> t.w, res |-> t.res, err |-> t.err]
            ELSE Forced(force_power_mode(t.w, "Standby"))
        Delayed(w0) ==
            IF validate(w0.config) # "Ok" THEN Result(w0, "InvalidConfig")
            ELSE Tested(run_self_test(w0))
    IN  Delayed(delay_ms(w, POWER_UP_TO_STANDBY_DELAY_MS))

\* Adxl372::init
init(w) ==
    LET Reset2(r) == IF r.res # "Ok" THEN r ELSE configure(r.w, r.w.config)
        Forced(f) == IF f.res # "Ok" THEN f ELSE Reset2(reset(f.w))
        Tested(t) ==
            IF t.res # "Ok" THEN [w |-> t.w, res |-> t.res, err |-> t.err]
            ELSE IF ~t.report.passed THEN Result(t.w, "SelfTestFailed")
            ELSE Forced(force_power_mode(t.w, "Standby"))
        Delayed(w0) ==
            IF validate(w0.config) # "Ok" THEN Result(w0, "InvalidConfig")
            ELSE Tested(run_self_test(w0))
    IN  Delayed(delay_ms(w, POWER_UP_TO_STANDBY_DELAY_MS))

---------------------------------------------------------------------------
(* The inputs of the calls.                                                *)

\* The Config with the given ODR and bandwidth and setting p of the rest.
MkConfig(odr, bandwidth, p) ==
    [odr |-> odr,
     wakeup_rate |-> FromBits(WakeUpRate, (3 * p) % 8),
     ext_clk |-> FromBits(ExtClk, p % 2),
     ext_sync |-> FromBits(ExtSync, (p + p \div 2) % 2),
     user_or_disable |-> FromBits(UserOrDisable, p % 2),
     autosleep |-> FromBits(AutoSleep, (p + p \div 2) % 2),
     linkloop |-> FromBits(LinkLoopMode, p % 3),
     low_noise |-> FromBits(LowNoise, p % 2),
     bandwidth |-> bandwidth,
     i2c_hsm_en |-> FromBits(I2cHsmEn, p % 2),
     instant_on_threshold |-> FromBits(InstantOnThreshold, (p + p \div 2) % 2),
     filter_settle |-> FromBits(SettleFilter, (p + 1) % 2),
     lpf_disable |-> FromBits(LpfDisable, p % 2),
     hpf_disable |-> FromBits(HpfDisable, (p + p \div 2) % 2),
     power_mode |-> FromBits(PowerMode, (3 * p) % 4)]

Profiles == 0..MaxProfile

\* The bytes a device holds when it was programmed with Config c.
RegsOf(c) ==
    [r \in DeviceRegs |->
        CASE r = REG_TIMING ->
                 TimingInto(TimingMutate(TimingFrom(0),
                     [odr |-> c.odr, wakeup_rate |-> c.wakeup_rate,
                      ext_clk |-> c.ext_clk, ext_sync |-> c.ext_sync]))
          [] r = REG_MEASURE ->
                 MeasureInto(MeasureMutate(MeasureFrom(0),
                     [user_or_disable |-> c.user_or_disable, autosleep |-> c.autosleep,
                      linkloop |-> c.linkloop, low_noise |-> c.low_noise,
                      bandwidth |-> c.bandwidth]))
          [] r = REG_POWER_CTL ->
                 PowerControlInto(PowerMutate(PowerControlFrom(0),
                     [i2c_hsm_en |-> c.i2c_hsm_en,
                      instant_on_threshold |-> c.instant_on_threshold,
                      filter_settle |-> c.filter_settle, lpf_disable |-> c.lpf_disable,
                      hpf_disable |-> c.hpf_disable, mode |-> c.power_mode]))
          [] OTHER -> 0]

\* All ODR / bandwidth pairs, valid or not.
AllPairs == Variants(OutputDataRate) \X Variants(Bandwidth)

\* The pairs the calls of Spec draw from: the slowest and the fastest valid
\* pair and a pair that violates Nyquist.
SomePairs ==
    {<<"Od400Hz", "Bw200Hz">>, <<"Od6400Hz", "Bw3200Hz">>, <<"Od400Hz", "Bw3200Hz">>}

Configs(pairs) == {MkConfig(pr[1], pr[2], p) : pr \in pairs, p \in Profiles}

\* Arguments of configure_timing: the ODR alone, or the other three fields.
TimingArgs(odrs) ==
    {[odr |-> o, wakeup_rate |-> None, ext_clk |-> None, ext_sync |-> None] :
        o \in odrs}
    \cup {[odr |-> None, wakeup_rate |-> c.wakeup_rate, ext_clk |-> c.ext_clk,
           ext_sync |-> c.ext_sync] : c \in Configs({<<"Od400Hz", "Bw200Hz">>})}

\* Arguments of configure_measurement: the bandwidth alone, or the rest.
MeasureArgs(bandwidths) ==
    {[user_or_disable |-> None, autosleep |-> None, linkloop |-> None,
      low_noise |-> None, bandwidth |-> b] : b \in bandwidths}
    \cup {[user_or_disable |-> c.user_or_disable, autosleep |-> c.autosleep,
           linkloop |-> c.linkloop, low_noise |-> c.low_noise, bandwidth |-> None] :
             c \in Configs({<<"Od400Hz", "Bw200Hz">>})}

\* Arguments of configure_power_ctl: the mode alone, or every field.
PowerArgs ==
    {[i2c_hsm_en |-> None, instant_on_threshold |-> None, filter_settle |-> None,
      lpf_disable |-> None, hpf_disable |-> None, mode |-> "Measure"]}
    \cup {[i2c_hsm_en |-> c.i2c_hsm_en,
           instant_on_threshold |-> c.instant_on_threshold,
           filter_settle |-> c.filter_settle, lpf_disable |-> c.lpf_disable,
           hpf_disable |-> c.hpf_disable, mode |-> c.power_mode] :
             c \in Configs({<<"Od400Hz", "Bw200Hz">>})}

\* The hardware outside a self-test.
IdleScript ==
    [done_after |-> 0, user_st |-> FALSE, lo |-> 0, hi |-> 0, switch_at |-> 0,
     st_reads_back |-> TRUE]

\* The sample stream of the self-test's unit test: 20 samples of 0, then
\* 20 samples of 10, then ST_DONE with USER_ST.
PassingScript ==
    [done_after |-> 40, user_st |-> TRUE, lo |-> 0, hi |-> 10, switch_at |-> 20,
     st_reads_back |-> TRUE]

\* Hardware that finishes after two samples, its ST bit not reading back.
ShortScript ==
    [done_after |-> 2, user_st |-> TRUE, lo |-> -7, hi |-> 9, switch_at |-> 1,
     st_reads_back |-> FALSE]

\* Hardware that never reports ST_DONE.
TimeoutScript ==
    [done_after |-> 1000, user_st |-> TRUE, lo |-> 0, hi |-> 10, switch_at |-> 20,
     st_reads_back |-> TRUE]

\* Hardware that finishes with the sample that uses up the timeout budget.
BoundaryScript ==
    [done_after |-> 200, user_st |-> TRUE, lo |-> 3, hi |-> -9, switch_at |-> 100,
     st_reads_back |-> FALSE]

\* Hardware that finishes one sample before the budget is used up.
LateScript ==
    [done_after |-> 199, user_st |-> TRUE, lo |-> 0, hi |-> 10, switch_at |-> 150,
     st_reads_back |-> TRUE]

\* The failure-free bus and the bus that fails once, at one of the first
\* or of the last MaxFailAt of the n operations of the failure-free call.
FailChoices(n) ==
    {{}} \cup {{k} : k \in {j \in 1..n : j <= MaxFailAt \/ j > n - MaxFailAt}}

---------------------------------------------------------------------------
(* The state machine: a driver instance, its device and the last call.     *)

World(fail, script) ==
    [config |-> config, regs |-> regs, ignore |-> ignore, fail |-> fail,
     script |-> script, ops |-> 0, zreads |-> 0, log |-> <<>>]

\* What is kept of the call before the last one: its operation, argument
\* and result when a configure call follows a configure call.
Summary(op, call) ==
    IF op = "configure" /\ call.op = "configure"
    THEN [op |-> call.op, arg |-> call.arg, res |-> call.res]
    ELSE [op |-> "none", arg |-> <<>>, res |-> "Ok"]

NoCall(c, d) ==
    [op |-> "none", arg |-> <<>>, res |-> "Ok", log |-> <<>>, pre |-> c,
     pre_regs |-> d, report |-> DefaultReport, err |-> 0,
     prev |-> [op |-> "none", arg |-> <<>>, res |-> "Ok"]]

\* The bus operation whose error r carries, by its position in the call
\* (0: none).  run_self_test names it; every other call returns the error of
\* the operation it stopped at, its last one.
ErrOf(r) ==
    IF "err" \in DOMAIN r THEN r.err
    ELSE IF r.res = "Interface" THEN r.w.ops ELSE 0

\* The call returned r: the driver and the device are as the call left them.
Returned(op, arg, r, report) ==
    /\ config' = r.w.config
    /\ regs' = r.w.regs
    /\ ignore' = ignore
    /\ calls' = calls + 1
    /\ last' = [op |-> op, arg |-> arg, res |-> r.res, log |-> r.w.log,
                pre |-> config, pre_regs |-> regs, report |-> report,
                err |-> ErrOf(r), prev |-> Summary(op, last)]

\* Adxl372::new(interface, config): any Config, over a device that holds
\* its power-on defaults or the registers of an earlier configuration.
InitStates(cfgs, devs) ==
    /\ config \in cfgs
    /\ regs \in devs
    /\ ignore \in BOOLEAN
    /\ calls = 0
    /\ last = NoCall(config, regs)

\* The inputs the calls of Spec draw from.
SpecConfigs == Configs(SomePairs)
SpecStartConfigs == {MkConfig(pr[1], pr[2], 0) : pr \in SomePairs}
SpecDevices == {ResetRegs, RegsOf(MkConfig("Od6400Hz", "Bw3200Hz", MaxProfile))}
SpecTimingArgs == TimingArgs({"Od400Hz", "Od6400Hz"})
SpecMeasureArgs == MeasureArgs({"Bw200Hz", "Bw3200Hz"})
SpecSelfTestScripts == {ShortScript}
SpecInitScripts == {PassingScript, ShortScript}

Init == InitStates(SpecStartConfigs, SpecDevices)

Configure(cfgs) ==
    /\ calls < MaxCalls
    /\ \E c \in cfgs :
        \E f \in FailChoices(configure(World({}, IdleScript), c).w.ops) :
            Returned("configure", c, configure(World(f, IdleScript), c), DefaultReport)

ConfigureTiming(args) ==
    /\ calls < MaxCalls
    /\ \E u \in args :
        \E f \in FailChoices(update_timing_config(World({}, IdleScript), u).w.ops) :
            Returned("configure_timing", u,
                     configure_timing(World(f, IdleScript), u.odr, u.wakeup_rate,
                                      u.ext_clk, u.ext_sync),
                     DefaultReport)

ConfigureMeasurement(args) ==
    /\ calls < MaxCalls
    /\ \E u \in args :
        \E f \in FailChoices(update_measure_config(World({}, IdleScript), u).w.ops) :
            Returned("configure_measurement", u,
                     configure_measurement(World(f, IdleScript), u.user_or_disable,
                                           u.autosleep, u.linkloop, u.low_noise,
                                           u.bandwidth),
                     DefaultReport)

ConfigurePowerCtl(args) ==
    /\ calls < MaxCalls
    /\ \E u \in args :
        \E f \in FailChoices(update_power_control(World({}, IdleScript), u).w.ops) :
            Returned("configure_power_ctl", u,
                     configure_power_ctl(World(f, IdleScript), u.i2c_hsm_en,
                                         u.instant_on_threshold, u.filter_settle,
                                         u.lpf_disable, u.hpf_disable, u.mode),
                     DefaultReport)

Reset ==
    /\ calls < MaxCalls
    /\ \E f \in FailChoices(1) :
        Returned("reset", <<>>, reset(World(f, IdleScript)), DefaultReport)

RunSelfTest(scripts) ==
    /\ calls < MaxCalls
    /\ \E sc \in scripts :
        \E f \in FailChoices(run_self_test(World({}, sc)).w.ops) :
            LET Ret(r) == Returned("run_self_test", sc, r, r.report)
            IN  Ret(run_self_test(World(f, sc)))

\* init is the first call on a driver instance.
InitDriver(scripts) ==
    /\ calls = 0
    /\ \E sc \in scripts :
        \E f \in FailChoices(init(World({}, sc)).w.ops) :
            Returned("init", sc, init(World(f, sc)), DefaultReport)

Next ==
    \/ Configure(SpecConfigs)
    \/ ConfigureTiming(SpecTimingArgs)
    \/ ConfigureMeasurement(SpecMeasureArgs)
    \/ ConfigurePowerCtl(PowerArgs)
    \/ Reset
    \/ RunSelfTest(SpecSelfTestScripts)
    \/ InitDriver(SpecInitScripts)

Spec == Init /\ [][Next]_vars

---------------------------------------------------------------------------
(* Config::validate on its own, over every ODR / bandwidth pair.            *)

AllConfigs == Configs(AllPairs)

InitValidate == InitStates(AllConfigs, SpecDevices)

\* Config::validate of the cached Config: nothing but the result changes.
Validate ==
    /\ calls = 0
    /\ calls' = 1
    /\ last' = [NoCall(config, regs) EXCEPT !.op = "validate", !.arg = config,
                                            !.res = validate(config)]
    /\ UNCHANGED <<config, regs, ignore>>

SpecValidate == InitValidate /\ [][Validate]_vars

---------------------------------------------------------------------------
(* One partial update from every cached ODR / bandwidth pair.               *)

AllTimingArgs == TimingArgs(Variants(OutputDataRate))
AllMeasureArgs == MeasureArgs(Variants(Bandwidth))

InitPartial == InitStates(AllConfigs, SpecDevices)

PartialTiming == calls = 0 /\ ConfigureTiming(AllTimingArgs)
PartialMeasurement == calls = 0 /\ ConfigureMeasurement(AllMeasureArgs)
PartialPowerCtl == calls = 0 /\ ConfigurePowerCtl(PowerArgs)

NextPartial == PartialTiming \/ PartialMeasurement \/ PartialPowerCtl

SpecPartial == InitPartial /\ [][NextPartial]_vars

---------------------------------------------------------------------------
(* The register codec on its own, over every byte of every register kind.  *)

\* The values of a u8.
Bytes == 0..255

\* The fields of a register kind that have a getter and a setter.
Accessible(kind) == {i \in DOMAIN Layout(kind) : Layout(kind)[i].type # Skip}

InitCodec ==
    /\ config = DefaultConfig
    /\ regs = ResetRegs
    /\ ignore = FALSE
    /\ calls = 0
    /\ \E kind \in RegisterKinds, byte \in Bytes :
           last = [NoCall(config, regs) EXCEPT
                      !.op = "byte", !.arg = [kind |-> kind, byte |-> byte]]

\* Decode the byte, read every field through its getter, encode again.
RoundTrip ==
    /\ calls = 0
    /\ calls' = 1
    /\ last' = [last EXCEPT
                   !.op = "roundtrip",
                   !.report =
                       [encoded |-> Into(last.arg.kind, From(last.arg.kind, last.arg.byte)),
                        read |-> [i \in Accessible(last.arg.kind) |->
                                     Getter(From(last.arg.kind, last.arg.byte),
                                            Layout(last.arg.kind)[i])]]]
    /\ UNCHANGED <<config, regs, ignore>>

\* Decode the byte, set one field to one of its variants, encode.
SetField ==
    /\ calls = 0
    /\ calls' = 1
    /\ \E i \in Accessible(last.arg.kind) :
           \E v \in Variants(Layout(last.arg.kind)[i].type) :
               last' = [last EXCEPT
                           !.op = "set_field",
                           !.arg = [kind |-> last.arg.kind, byte |-> last.arg.byte,
                                    field |-> Layout(last.arg.kind)[i], value |-> v],
                           !.report =
                               [encoded |->
                                    Into(last.arg.kind,
                                         Setter(last.arg.kind,
                                                From(last.arg.kind, last.arg.byte),
                                                Layout(last.arg.kind)[i], v))]]
    /\ UNCHANGED <<config, regs, ignore>>

NextCodec == RoundTrip \/ SetField

SpecCodec == InitCodec /\ [][NextCodec]_vars

---------------------------------------------------------------------------
(* One self-test, run directly or by init, over hardware that finishes      *)
(* early, in time, at the limit of the timeout budget or never.             *)

AllSelfTestScripts ==
    {PassingScript, ShortScript, LateScript, BoundaryScript, TimeoutScript}

InitSelfTest == InitStates(SpecStartConfigs, SpecDevices)

SelfTestRun == calls = 0 /\ RunSelfTest(AllSelfTestScripts)
SelfTestInit == calls = 0 /\ InitDriver(AllSelfTestScripts)

\* A bus that fails once anywhere in phases 1 to 3 (bus operations 1 to
\* 2 * MaxFailAt + 2 reach the first status and Z reads of the sampling
\* loop) or in the disarm and the exit reset, and a bus that fails twice in
\* a row there: an operation of the sequence and the exit reset after it.
SelfTestFailAt(n) == {k \in 1..n : k <= 2 * MaxFailAt + 2 \/ k > n - MaxFailAt}
SelfTestFailChoices(n) ==
    {{k} : k \in SelfTestFailAt(n)} \cup {{k, k + 1} : k \in SelfTestFailAt(n)}

SelfTestRunFailing ==
    /\ calls = 0
    /\ \E sc \in AllSelfTestScripts :
        \E f \in SelfTestFailChoices(run_self_test(World({}, sc)).w.ops) :
            LET Ret(r) == Returned("run_self_test", sc, r, r.report)
            IN  Ret(run_self_test(World(f, sc)))

SelfTestInitFailing ==
    /\ calls = 0
    /\ \E sc \in AllSelfTestScripts :
        \E f \in SelfTestFailChoices(init(World({}, sc)).w.ops) :
            Returned("init", sc, init(World(f, sc)), DefaultReport)

NextSelfTest ==
    \/ SelfTestRun
    \/ SelfTestInit
    \/ SelfTestRunFailing
    \/ SelfTestInitFailing

SpecSelfTest == InitSelfTest /\ [][NextSelfTest]_vars

---------------------------------------------------------------------------
(* The decoding of every pair of axis data bytes.                          *)

InitAxis ==
    /\ config = DefaultConfig
    /\ regs = ResetRegs
    /\ ignore = FALSE
    /\ calls = 0
    /\ \E msb \in Bytes, lsb \in Bytes :
           last = [NoCall(config, regs) EXCEPT
                      !.op = "bytes", !.arg = [msb |-> msb, lsb |-> lsb]]

\* Decode the two bytes.
UnpackAxis ==
    /\ calls = 0
    /\ calls' = 1
    /\ last' = [last EXCEPT
                   !.op = "unpack_axis",
                   !.report = [value |-> unpack_axis(last.arg.msb, last.arg.lsb)]]
    /\ UNCHANGED <<config, regs, ignore>>

SpecAxis == InitAxis /\ [][UnpackAxis]_vars

---------------------------------------------------------------------------
(* The sampling loop of collect_self_test_windows, pass by pass.           *)

\* Streams that end before, at and behind the window size, or never.
LoopStreams ==
    {[done_after |-> d, user_st |-> TRUE, lo |-> -2048, hi |-> 2047, switch_at |-> sw,
      st_reads_back |-> TRUE] : d \in {0, 19, 20, 45, 1000}, sw \in {0, 30}}

\* The locals of collect_self_test_windows at the head of its loop, behind
\* the first read of SELF_TEST.
LoopHead(rd) == [w |-> rd.w, res |-> "Ok", s |-> InitialWindows(rd.val), more |-> TRUE]

\* The self-test has been armed on a device at its power-on defaults.
InitLoop ==
    /\ config = DefaultConfig
    /\ regs = [ResetRegs EXCEPT ![REG_SELF_TEST] = 1]
    /\ ignore = FALSE
    /\ calls = 0
    /\ \E sc \in LoopStreams :
           last = [NoCall(config, regs) EXCEPT
                      !.op = "loop", !.arg = sc,
                      !.report = LoopHead(read_self_test_register(World({}, sc)))]

\* One more pass of the loop.
LoopStep ==
    /\ last.report.more
    /\ last' = [last EXCEPT !.report = LoopPass(last.report.w, last.report.s)]
    /\ UNCHANGED <<config, regs, ignore, calls>>

SpecLoop == InitLoop /\ [][LoopStep]_vars

---------------------------------------------------------------------------
(* interface/spi.rs: the SPI transport.                                    *)

\* command_byte with the read flag in the top bit of the byte.
command_byte_msb_flag(register, is_read) == (register % 128) + 128 * BoolBits(is_read)

\* SpiInterface::command_byte: (register & 0x7F) << 1, | 0x01 for a read.
command_byte(register, is_read) == (((register % 128) * 2) % 256) + BoolBits(is_read)

\* embedded_hal::spi::Operation::Write(bytes) and Operation::Read(buffer).
OperationWrite(bytes) == [kind |-> "Write", bytes |-> bytes, len |-> Len(bytes)]
OperationRead(len) == [kind |-> "Read", bytes |-> <<>>, len |-> len]

\* SpiInterface::read_many: the transactions it runs for a buffer of len bytes.
spi_read_many(register, len) ==
    IF len = 0 THEN <<>>
    ELSE <<(<<OperationWrite(<<command_byte(register, TRUE)>>), OperationRead(len)>>)>>

\* SpiInterface::write_many
spi_write_many(register, data) ==
    IF Len(data) = 0 THEN <<>>
    ELSE <<(<<OperationWrite(<<command_byte(register, FALSE)>>), OperationWrite(data)>>)>>

\* SpiInterface::read_register: read_many into a buffer of one byte.
spi_read_register(register) == spi_read_many(register, 1)

\* SpiInterface::write_register: write_many of the slice of the one value.
spi_write_register(register, value) == spi_write_many(register, <<value>>)

\* The payload bytes and the payloads of up to two bytes the calls are given.
SpiValues == {0, 165, 255}
SpiPayloads ==
    {<<>>} \cup {<<a>> : a \in SpiValues} \cup {<<a, b>> : a \in SpiValues, b \in SpiValues}
SpiLengths == 0..2

\* A call on the interface, for every register address a u8 holds.
InitSpi ==
    /\ config = DefaultConfig
    /\ regs = ResetRegs
    /\ ignore = FALSE
    /\ calls = 0
    /\ \E register \in Bytes :
           last = [NoCall(config, regs) EXCEPT
                      !.op = "spi", !.arg = [register |-> register]]

\* The call ran the transactions txs on the SPI device.
SpiReturned(op, arg, txs) ==
    /\ calls = 0
    /\ calls' = 1
    /\ last' = [last EXCEPT !.op = op, !.arg = arg, !.report = [transactions |-> txs]]
    /\ UNCHANGED <<config, regs, ignore>>

SpiReadRegister ==
    SpiReturned("read_register", [register |-> last.arg.register, len |-> 1],
                spi_read_register(last.arg.register))

SpiWriteRegister ==
    \E v \in SpiValues :
        SpiReturned("write_register", [register |-> last.arg.register, data |-> <<v>>],
                    spi_write_register(last.arg.register, v))

SpiReadMany ==
    \E n \in SpiLengths :
        SpiReturned("read_many", [register |-> last.arg.register, len |-> n],
                    spi_read_many(last.arg.register, n))

SpiWriteMany ==
    \E d \in SpiPayloads :
        SpiReturned("write_many", [register |-> last.arg.register, data |-> d],
                    spi_write_many(last.arg.register, d))

NextSpi == SpiReadRegister \/ SpiWriteRegister \/ SpiReadMany \/ SpiWriteMany

SpecSpi == InitSpi /\ [][NextSpi]_vars

---------------------------------------------------------------------------
(* One call of any operation of the driver, over a bus that fails.         *)

OneConfigure == calls = 0 /\ Configure(SpecConfigs)
OneConfigureTiming == calls = 0 /\ ConfigureTiming(SpecTimingArgs)
OneConfigureMeasurement == calls = 0 /\ ConfigureMeasurement(SpecMeasureArgs)
OneConfigurePowerCtl == calls = 0 /\ ConfigurePowerCtl(PowerArgs)
OneReset == calls = 0 /\ Reset

\* A driver constructed with a Config of any profile.
InitOneCall == InitStates(SpecConfigs, SpecDevices)

NextOneCall ==
    \/ OneConfigure
    \/ OneConfigureTiming
    \/ OneConfigureMeasurement
    \/ OneConfigurePowerCtl
    \/ OneReset
    \/ SelfTestRun
    \/ SelfTestInit
    \/ SelfTestRunFailing
    \/ SelfTestInitFailing

SpecOneCall == InitOneCall /\ [][NextOneCall]_vars

---------------------------------------------------------------------------
(* The two averaging windows of the self-test, over sample streams of      *)
(* every length and of 12-bit values up to both ends of the range.         *)

\* Streams of done_after samples: switch_at samples of lo, then hi.
WindowScripts ==
    {[done_after |-> d, user_st |-> u, lo |-> lo, hi |-> hi, switch_at |-> sw,
      st_reads_back |-> TRUE] :
        d \in {0, 1, 2, 19, 20, 21, 40, 45, 1000}, u \in BOOLEAN,
        lo \in {-2048, -5, 0, 5, 2047}, hi \in {-2048, -5, 0, 5, 2047},
        sw \in {0, 1, 20, 30}}

DefaultConfigs == {DefaultConfig}
DefaultDevices == {ResetRegs}

InitWindows == InitStates(DefaultConfigs, DefaultDevices)

\* run_self_test over a bus that does not fail.
WindowRun ==
    /\ calls = 0
    /\ \E sc \in WindowScripts :
           LET Ret(r) == Returned("run_self_test", sc, r, r.report)
           IN  Ret(run_self_test(World({}, sc)))

SpecWindows == InitWindows /\ [][WindowRun]_vars

---------------------------------------------------------------------------
(* Sequences of calls on a driver constructed with the default Config over *)
(* a device at its power-on defaults, on a bus that does not fail.         *)

\* The call returned r and the sequence may go on.
Step(op, arg, r, report) == calls < MaxSequence /\ Returned(op, arg, r, report)

NextConfigure ==
    \E c \in SpecConfigs :
        Step("configure", c, configure(World({}, IdleScript), c), DefaultReport)

NextConfigureTiming ==
    \E u \in SpecTimingArgs :
        Step("configure_timing", u,
             configure_timing(World({}, IdleScript), u.odr, u.wakeup_rate,
                              u.ext_clk, u.ext_sync),
             DefaultReport)

NextConfigureMeasurement ==
    \E u \in SpecMeasureArgs :
        Step("configure_measurement", u,
             configure_measurement(World({}, IdleScript), u.user_or_disable,
                                   u.autosleep, u.linkloop, u.low_noise, u.bandwidth),
             DefaultReport)

NextConfigurePowerCtl ==
    \E u \in PowerArgs :
        Step("configure_power_ctl", u,
             configure_power_ctl(World({}, IdleScript), u.i2c_hsm_en,
                                 u.instant_on_threshold, u.filter_settle,
                                 u.lpf_disable, u.hpf_disable, u.mode),
             DefaultReport)

NextReset == Step("reset", <<>>, reset(World({}, IdleScript)), DefaultReport)

NextRunSelfTest ==
    \E sc \in SpecSelfTestScripts :
        LET Ret(r) == Step("run_self_test", sc, r, r.report)
        IN  Ret(run_self_test(World({}, sc)))

NextSequence ==
    \/ NextConfigure
    \/ NextConfigureTiming
    \/ NextConfigureMeasurement
    \/ NextConfigurePowerCtl
    \/ NextReset
    \/ NextRunSelfTest

SpecSequence == InitWindows /\ [][NextSequence]_vars

---------------------------------------------------------------------------
(* What the properties read off the last call.                             *)

\* The three registers of the configuration engine.
EngineRegs == {REG_TIMING, REG_MEASURE, REG_POWER_CTL}

\* Bandwidth and ODR of a Config respect Nyquist.
Nyquist(cfg) == max_hz(cfg.bandwidth) * 2 <= hz(cfg.odr)

\* The bus operations of a log (the delays left out), in program order.
BusOps(log) == SelectSeq(log, LAMBDA e : e.op \in {"read", "write", "read_many"})

\* The register writes of a log.
Writes(log) == SelectSeq(log, LAMBDA e : e.op = "write")

\* The registers a log has a completed access to.
Touched(log) ==
    {log[i].reg : i \in {j \in DOMAIN log : log[j].op \in {"read", "write"} /\ log[j].ok}}

Latest(S) == CHOOSE x \in S : \A y \in S : y <= x

\* The byte a log's accesses leave the driver with for a register: the last
\* byte written to it, or the byte read when nothing was written.
ByteLeft(log, register) ==
    LET Ws == {i \in DOMAIN log :
                  log[i].op = "write" /\ log[i].reg = register /\ log[i].ok}
        Rs == {i \in DOMAIN log :
                  log[i].op = "read" /\ log[i].reg = register /\ log[i].ok}
    IN  IF Ws # {} THEN log[Latest(Ws)].val ELSE log[Latest(Rs)].val

\* The cached fields a register owns equal the decode of byte.
CacheAgrees(cfg, register, byte) ==
    CASE register = REG_TIMING ->
             /\ cfg.odr = FromBits(OutputDataRate, TimingFrom(byte).odr)
             /\ cfg.wakeup_rate = FromBits(WakeUpRate, TimingFrom(byte).wake_up_rate)
             /\ cfg.ext_clk = FromBits(ExtClk, TimingFrom(byte).ext_clk)
             /\ cfg.ext_sync = FromBits(ExtSync, TimingFrom(byte).ext_sync)
      [] register = REG_MEASURE ->
             /\ cfg.bandwidth = FromBits(Bandwidth, MeasureFrom(byte).bandwidth)
             /\ cfg.low_noise = FromBits(LowNoise, MeasureFrom(byte).low_noise)
             /\ cfg.linkloop = FromBits(LinkLoopMode, MeasureFrom(byte).link_loop_mode)
             /\ cfg.autosleep = FromBits(AutoSleep, MeasureFrom(byte).autosleep)
             /\ cfg.user_or_disable =
                    FromBits(UserOrDisable, MeasureFrom(byte).user_or_disable)
      [] register = REG_POWER_CTL ->
             /\ cfg.power_mode = FromBits(PowerMode, PowerControlFrom(byte).mode)
             /\ cfg.hpf_disable = FromBits(HpfDisable, PowerControlFrom(byte).hpf_disable)
             /\ cfg.lpf_disable = FromBits(LpfDisable, PowerControlFrom(byte).lpf_disable)
             /\ cfg.filter_settle =
                    FromBits(SettleFilter, PowerControlFrom(byte).filter_settle)
             /\ cfg.instant_on_threshold =
                    FromBits(InstantOnThreshold,
                             PowerControlFrom(byte).instant_on_threshold)
             /\ cfg.i2c_hsm_en =
                    FromBits(I2cHsmEn, PowerControlFrom(byte).i2c_high_speed_enable)

\* The calls of the configuration engine that can refuse a Config.
ValidatingOps == {"configure", "configure_timing", "configure_measurement"}

\* All calls of the configuration engine.
EngineOps == ValidatingOps \cup {"configure_power_ctl"}

\* The register a call's Nyquist test sits behind the read of.
CheckedRegister(op) == IF op = "configure_measurement" THEN REG_MEASURE ELSE REG_TIMING

---------------------------------------------------------------------------
(* Properties of Config::validate and of the Nyquist invariant.            *)

\* C1: Config::validate returns NyquistViolation exactly for the pairs with
\* bandwidth.max_hz() * 2 > odr.hz(), which are the pairs whose bandwidth
\* sits higher in its enumeration than the ODR does in its own, returns Ok
\* for every other pair of the 5 x 5, and gives the same answer whatever
\* the other fields of the Config are.
C1_ValidateRejectsExactlyNyquist ==
    last.op = "validate" =>
        /\ last.res \in {"Ok", "NyquistViolation"}
        /\ (last.res = "NyquistViolation")
               <=> (max_hz(config.bandwidth) * 2 > hz(config.odr))
        /\ (last.res = "NyquistViolation")
               <=> (IntoBits(Bandwidth, config.bandwidth)
                        > IntoBits(OutputDataRate, config.odr))
        /\ \A p \in Profiles :
               validate(MkConfig(config.odr, config.bandwidth, p)) = last.res

\* validate has refused the pair just above the boundary.
C1_Witness ==
    /\ last.op = "validate"
    /\ last.res = "NyquistViolation"
    /\ config.odr = "Od400Hz"
    /\ config.bandwidth = "Bw400Hz"

\* C2: a cached Config that respects Nyquist still respects it after any
\* call, whether the call succeeds, is refused or meets a bus failure.
C2_NyquistPreserved == [][Nyquist(config) => Nyquist(config')]_vars

\* A second call has changed the cached bandwidth of a Config that
\* respected Nyquist.
C2_Witness ==
    /\ calls >= 2
    /\ last.op = "configure_measurement"
    /\ last.res = "Ok"
    /\ Nyquist(last.pre)
    /\ config.bandwidth # last.pre.bandwidth

\* C3: a configure, configure_timing or configure_measurement call that
\* returns InvalidConfig has issued no register write and has left the
\* cached Config as it was before the call.
C3_RejectedWholesale ==
    (last.op \in ValidatingOps /\ last.res = "InvalidConfig") =>
        /\ Writes(last.log) = <<>>
        /\ config = last.pre
        /\ regs = last.pre_regs

\* configure_timing has refused an ODR below twice the cached bandwidth.
C3_Witness ==
    /\ last.op = "configure_timing"
    /\ last.res = "InvalidConfig"
    /\ last.arg.odr # None
    /\ last.log # <<>>

\* C4 as stated: a call of configure, configure_timing,
\* configure_measurement or init that returns InvalidConfig has performed
\* no bus operation at all.
C4_NoBusOperationWhenRejected ==
    (last.op \in ValidatingOps \cup {"init"} /\ last.res = "InvalidConfig") =>
        BusOps(last.log) = <<>>

\* C4 amended: a call that returns InvalidConfig has issued no register
\* write.  configure_timing and configure_measurement have performed exactly
\* one bus operation, the read of the register they update, which precedes
\* their Nyquist test; configure has performed none when the Config it was
\* given fails validate and otherwise exactly the read of TIMING; init has
\* performed none.
C4_RejectedAfterAtMostOneRead ==
    (last.op \in ValidatingOps \cup {"init"} /\ last.res = "InvalidConfig") =>
        /\ Writes(last.log) = <<>>
        /\ \/ BusOps(last.log) = <<>>
           \/ BusOps(last.log) =
                  <<LogEntry("read", CheckedRegister(last.op),
                             last.pre_regs[CheckedRegister(last.op)], TRUE)>>
        /\ last.op \in {"configure_timing", "configure_measurement"} =>
               Len(BusOps(last.log)) = 1
        /\ last.op = "configure" =>
               (BusOps(last.log) = <<>> <=> validate(last.arg) # "Ok")
        /\ last.op = "init" => BusOps(last.log) = <<>>

\* configure has refused a Config that passes validate, after reading
\* TIMING.
C4_Witness ==
    /\ last.op = "configure"
    /\ last.res = "InvalidConfig"
    /\ validate(last.arg) = "Ok"
    /\ Len(BusOps(last.log)) = 1

\* C5: after a successful configure, configure_timing,
\* configure_measurement or configure_power_ctl, the cached fields of every
\* register the call touched equal the decode of the last byte the call
\* wrote to that register, or of the byte it read when it wrote none.
C5_CacheIsDecodeOfLastByte ==
    (last.op \in EngineOps /\ last.res = "Ok") =>
        \A r \in Touched(last.log) :
            r \in EngineRegs /\ CacheAgrees(config, r, ByteLeft(last.log, r))

\* configure_timing has written TIMING and the cache has changed with it.
C5_Witness ==
    /\ last.op = "configure_timing"
    /\ last.res = "Ok"
    /\ Writes(last.log) # <<>>
    /\ config # last.pre
    /\ config.ext_sync # last.pre.ext_sync

---------------------------------------------------------------------------
(* Properties of the read-modify-write cycles.                             *)

\* C6: after a successful configure or partial update, also over a device
\* that ignores a bit of what is written to it, the cached fields of every
\* register the call touched equal the decode of the byte the device holds
\* in that register.
C6_CacheIsDecodeOfDevice ==
    (last.op \in EngineOps /\ last.res = "Ok") =>
        \A r \in Touched(last.log) : CacheAgrees(config, r, regs[r])

\* The field updates configure runs its three cycles with.
TimingOf(c) ==
    [odr |-> c.odr, wakeup_rate |-> c.wakeup_rate, ext_clk |-> c.ext_clk,
     ext_sync |-> c.ext_sync]
MeasureOf(c) ==
    [user_or_disable |-> c.user_or_disable, autosleep |-> c.autosleep,
     linkloop |-> c.linkloop, low_noise |-> c.low_noise, bandwidth |-> c.bandwidth]
PowerOf(c) ==
    [i2c_hsm_en |-> c.i2c_hsm_en, instant_on_threshold |-> c.instant_on_threshold,
     filter_settle |-> c.filter_settle, lpf_disable |-> c.lpf_disable,
     hpf_disable |-> c.hpf_disable, mode |-> c.power_mode]

\* The byte a cycle of the call op(arg) recomputes from the byte it read.
Recomputed(op, arg, register, byte) ==
    CASE register = REG_TIMING ->
             TimingInto(TimingMutate(TimingFrom(byte),
                 IF op = "configure" THEN TimingOf(arg) ELSE arg))
      [] register = REG_MEASURE ->
             MeasureInto(MeasureMutate(MeasureFrom(byte),
                 IF op = "configure" THEN MeasureOf(arg) ELSE arg))
      [] register = REG_POWER_CTL ->
             PowerControlInto(PowerMutate(PowerControlFrom(byte),
                 IF op = "configure" THEN PowerOf(arg) ELSE arg))

C8_SecondConfigureWritesNothing ==
    (/\ ~ignore
     /\ Nyquist(last.pre)
     /\ last.op = "configure"
     /\ last.prev.op = "configure"
     /\ last.prev.arg = last.arg
     /\ validate(last.arg) = "Ok"
     /\ last.prev.res # "Interface"
     /\ last.res # "Interface")
    => /\ Writes(last.log) = <<>>
       /\ Len(BusOps(last.log)) = 3
       /\ config = last.arg

\* The place of a register in the order configure programs them in.
Rank(register) ==
    CASE register = REG_TIMING -> 1
      [] register = REG_MEASURE -> 2
      [] register = REG_POWER_CTL -> 3
      [] OTHER -> 0

\* C9: a successful configure accesses TIMING, then MEASURE, then
\* POWER_CTL and no other register: every access to a register comes before
\* every access to a later one, each register is read once, and a write
\* comes right after the read of the same register.
C9_ConfigureOrder ==
    (last.op = "configure" /\ last.res = "Ok") =>
        /\ \A i \in DOMAIN BusOps(last.log) :
               /\ BusOps(last.log)[i].op \in {"read", "write"}
               /\ BusOps(last.log)[i].reg \in EngineRegs
               /\ \A j \in DOMAIN BusOps(last.log) :
                      i < j => Rank(BusOps(last.log)[i].reg)
                                   <= Rank(BusOps(last.log)[j].reg)
               /\ BusOps(last.log)[i].op = "write" =>
                      /\ i > 1
                      /\ BusOps(last.log)[i - 1].op = "read"
                      /\ BusOps(last.log)[i - 1].reg = BusOps(last.log)[i].reg
        /\ \A r \in EngineRegs :
               Cardinality({i \in DOMAIN last.log :
                               last.log[i].op = "read" /\ last.log[i].reg = r}) = 1

\* configure has succeeded with a write to each of the three registers.
C9_Witness ==
    /\ last.op = "configure"
    /\ last.res = "Ok"
    /\ Len(Writes(last.log)) = 3

\* Only the named field of a partial update is given.
OnlyField(arg, field) ==
    \A f \in DOMAIN arg : (arg[f] # None) <=> (f = field)

\* C10: once its register read has completed, configure_measurement
\* changing only the bandwidth returns InvalidConfig exactly when
\* new_bandwidth.max_hz() * 2 > cached odr.hz(), and configure_timing
\* changing only the ODR returns InvalidConfig exactly when
\* cached bandwidth.max_hz() * 2 > new_odr.hz(); neither returns
\* InvalidConfig otherwise, and configure_power_ctl never does.
C10_PartialUpdateAgainstCache ==
    /\ (last.op = "configure_measurement" /\ OnlyField(last.arg, "bandwidth")) =>
           /\ last.res = "InvalidConfig" =>
                  max_hz(last.arg.bandwidth) * 2 > hz(last.pre.odr)
           /\ last.log[1].ok =>
                  (last.res = "InvalidConfig"
                      <=> max_hz(last.arg.bandwidth) * 2 > hz(last.pre.odr))
    /\ (last.op = "configure_timing" /\ OnlyField(last.arg, "odr")) =>
           /\ last.res = "InvalidConfig" =>
                  max_hz(last.pre.bandwidth) * 2 > hz(last.arg.odr)
           /\ last.log[1].ok =>
                  (last.res = "InvalidConfig"
                      <=> max_hz(last.pre.bandwidth) * 2 > hz(last.arg.odr))
    /\ last.op = "configure_power_ctl" => last.res # "InvalidConfig"

\* configure_measurement has refused a bandwidth against the cached ODR
\* although the ODR the device holds would have allowed it.
C10_Witness ==
    /\ last.op = "configure_measurement"
    /\ OnlyField(last.arg, "bandwidth")
    /\ last.res = "InvalidConfig"
    /\ Nyquist(last.pre)
    /\ max_hz(last.arg.bandwidth) * 2
           <= hz(FromBits(OutputDataRate, TimingFrom(last.pre_regs[REG_TIMING]).odr))


---------------------------------------------------------------------------
(* Properties of the error paths.                                          *)

\* The partial updates of the configuration engine.
PartialOps == {"configure_timing", "configure_measurement", "configure_power_ctl"}

\* The writes of a log that reached one of the engine's three registers.
EngineWrites(log) ==
    SelectSeq(log, LAMBDA e : e.op = "write" /\ e.ok /\ e.reg \in EngineRegs)

\* C11: when configure returns an error, InvalidConfig or Interface, the
\* call has written none of TIMING, MEASURE and POWER_CTL, the device holds
\* what it held before the call, and the cached Config is as it was before
\* the call.
C11_ConfigureNeverPartial ==
    (last.op = "configure" /\ last.res \in {"InvalidConfig", "Interface"}) =>
        /\ EngineWrites(last.log) = <<>>
        /\ regs = last.pre_regs
        /\ config = last.pre

\* C12: a configure_timing, configure_measurement or configure_power_ctl
\* call that returns an Interface error, its register read or its register
\* write having failed, leaves the cached Config as it was before the call.
C12_InterfaceErrorKeepsCache ==
    (last.op \in PartialOps /\ last.res = "Interface") => config = last.pre

\* configure_power_ctl has met a failing write of a byte that differs from
\* what the cache says.
C12_Witness ==
    /\ last.op = "configure_power_ctl"
    /\ last.res = "Interface"
    /\ Len(last.log) = 2
    /\ last.log[2].op = "write"
    /\ ~last.log[2].ok
    /\ ~CacheAgrees(config, REG_POWER_CTL, last.log[2].val)


---------------------------------------------------------------------------
(* Properties of the register codec.                                       *)

\* C13: for every byte and each of the register kinds Timing, Measure,
\* PowerControl, SelfTest and Status, encoding the decoded byte gives the
\* byte back.
C13_EncodeDecodeIsIdentity ==
    last.op = "roundtrip" => last.report.encoded = last.arg.byte

\* A POWER_CTL byte with its skipped bit 6 set has gone through the codec.
C13_Witness ==
    /\ last.op = "roundtrip"
    /\ last.arg.kind = "PowerControl"
    /\ last.arg.byte = 255

\* C14: for every byte and each register kind, every enumerated field of
\* the decoded value reads back as a variant: no bit pattern of a field is
\* an invalid encoding.
C14_DecodeIsTotal ==
    last.op = "roundtrip" =>
        \A i \in DOMAIN last.report.read : last.report.read[i] # InvalidBitPattern

\* The bits of a byte outside field f.
Outside(f) == {k \in 0..7 : k < f.lo \/ k >= f.lo + f.width}

\* C15: setting one field of a decoded register changes only that field's
\* bits in the encoded byte: the field holds the new value, and every other
\* bit, skipped bits included, is as in the byte that was decoded.  The
\* same holds of the closure mutate_power_control runs for a change of the
\* power mode alone.
C15_SetterTouchesOnlyItsField ==
    last.op = "set_field" =>
        /\ Field(last.report.encoded, last.arg.field.lo, last.arg.field.width)
               = IntoBits(last.arg.field.type, last.arg.value)
        /\ \A k \in Outside(last.arg.field) :
               Field(last.report.encoded, k, 1) = Field(last.arg.byte, k, 1)
        /\ (last.arg.kind = "PowerControl" /\ last.arg.field.name = "mode") =>
               PowerControlInto(PowerMutate(PowerControlFrom(last.arg.byte),
                   [i2c_hsm_en |-> None, instant_on_threshold |-> None,
                    filter_settle |-> None, lpf_disable |-> None,
                    hpf_disable |-> None, mode |-> last.arg.value]))
                   = last.report.encoded

\* The power mode of a POWER_CTL byte with bit 6 and other fields set has
\* been changed.
C15_Witness ==
    /\ last.op = "set_field"
    /\ last.arg.kind = "PowerControl"
    /\ last.arg.field.name = "mode"
    /\ last.arg.byte = 108
    /\ last.report.encoded = 111


---------------------------------------------------------------------------
(* Properties of the self-test procedure.                                  *)

\* The calls that run a self-test.
SelfTestOps == {"run_self_test", "init"}

\* The part of a call's log that run_self_test produced: init issues its
\* power-up delay first.
RunLog(call) == IF call.op = "init" THEN Tail(call.log) ELSE call.log

DelayMs(ms) == LogEntry("delay_ms", 0, ms, TRUE)
DelayNs(ns) == LogEntry("delay_ns", 0, ns, TRUE)

\* A POWER_CTL byte with LPF_DISABLE (bit 3) cleared, MODE (bits 1:0) set
\* to Measure and FILTER_SETTLE (bit 4) set to the 370 ms setting, 0.
ForSelfTest(b) == b - Field(b, 0, 2) + 3 - 8 * Field(b, 3, 1) - 16 * Field(b, 4, 1)

\* The bus operations of the preparation over a POWER_CTL that reads b.
PreparationOf(b) ==
    <<LogEntry("read", REG_POWER_CTL, b, TRUE)>>
        \o (IF ForSelfTest(b) # b
            THEN <<LogEntry("write", REG_POWER_CTL, ForSelfTest(b), TRUE)>>
            ELSE <<>>)

\* The driver over a device whose register holds byte.
WorldHolding(register, byte) ==
    [World({}, IdleScript) EXCEPT !.regs = [ResetRegs EXCEPT ![register] = byte]]

\* The log starts with the reset, the preparation of POWER_CTL and the
\* settle delay, as far as the bus lets the run go.
PreparedFirst(L) ==
    /\ L[1].op = "write" /\ L[1].reg = REG_RESET /\ L[1].val = RESET_COMMAND
    /\ L[1].ok =>
           /\ Len(L) >= 2
           /\ L[2].op = "read" /\ L[2].reg = REG_POWER_CTL
    /\ (L[1].ok /\ L[2].ok) =>
           /\ Len(L) >= 3
           /\ IF ForSelfTest(L[2].val) # L[2].val
              THEN /\ L[3] = LogEntry("write", REG_POWER_CTL, ForSelfTest(L[2].val),
                                      L[3].ok)
                   /\ L[3].ok => (Len(L) >= 4 /\ L[4] = DelayMs(370))
              ELSE L[3] = DelayMs(370)
    /\ \A i \in DOMAIN L :
           L[i].reg = REG_SELF_TEST =>
               \E j \in 1..(i - 1) : L[j] = DelayMs(370)
    /\ Cardinality({i \in DOMAIN L : L[i] = DelayMs(370)}) <= 1

\* C16: run_self_test begins with the write of RESET_COMMAND to REG_RESET,
\* then reads POWER_CTL and writes it back, if changed, with LPF_DISABLE = 0,
\* MODE = Measure, FILTER_SETTLE = the 370 ms setting and every other bit as
\* read (0x00 becomes 0x03), then issues one delay of 370 ms; no access to
\* SELF_TEST comes before that delay.  The preparation does the same over
\* every byte POWER_CTL can hold.
C16_SelfTestPreparation ==
    (last.op \in SelfTestOps /\ RunLog(last) # <<>>) =>
        /\ PreparedFirst(RunLog(last))
        /\ \A b \in Bytes :
               configure_power_control_for_self_test(
                   WorldHolding(REG_POWER_CTL, b)).w.log = PreparationOf(b)

\* A run has reset the device, turned POWER_CTL from 0x00 into 0x03, waited
\* 370 ms and gone on to the SELF_TEST register.
C16_Witness ==
    /\ last.op = "run_self_test"
    /\ last.res = "Ok"
    /\ Len(last.log) > 5
    /\ last.log[2] = LogEntry("read", REG_POWER_CTL, 0, TRUE)
    /\ last.log[3] = LogEntry("write", REG_POWER_CTL, 3, TRUE)
    /\ last.log[4] = DelayMs(370)
    /\ last.log[5].reg = REG_SELF_TEST


\* The writes of a log that set the self-test trigger bit ST.
Triggers(L) ==
    {i \in DOMAIN L : L[i].op = "write" /\ L[i].reg = REG_SELF_TEST
                          /\ Field(L[i].val, 0, 1) = 1}

\* A completed read of SELF_TEST at position i of the log.
StatusReadAt(L, i) == L[i].op = "read" /\ L[i].reg = REG_SELF_TEST /\ L[i].ok

\* A clear step: the read of SELF_TEST and, if ST was set in the byte
\* read, the write of that byte with ST cleared.
ClearStep(L) ==
    /\ Len(L) >= 1
    /\ StatusReadAt(L, 1)
    /\ IF Field(L[1].val, 0, 1) = 1
       THEN L = <<L[1], LogEntry("write", REG_SELF_TEST, L[1].val - 1, TRUE)>>
       ELSE L = <<L[1]>>

\* The trigger write at position i comes right after its own read of
\* SELF_TEST, which comes right after the 2 ms guard delay, which comes
\* right after a clear step.
GuardedTrigger(L, i) ==
    /\ i >= 4
    /\ StatusReadAt(L, i - 1)
    /\ L[i].val = L[i - 1].val + 1
    /\ L[i - 2] = DelayMs(2)
    /\ \/ ClearStep(SubSeq(L, i - 3, i - 3))
       \/ i >= 5 /\ ClearStep(SubSeq(L, i - 4, i - 3))
    /\ \A j \in 1..(i - 1) : j \notin Triggers(L)

\* C17: in every self-test run, by run_self_test or by init, the write
\* that sets the trigger bit ST is preceded, in this order, by a clear step
\* on SELF_TEST (a read, and a write with ST = 0 if ST was set) and by a
\* 2 ms guard delay; ST is not set before the guard delay has been issued.
\* The clear step is as described whether or not ST is set in the device.
C17_TriggerAfterClearAndGuard ==
    last.op \in SelfTestOps =>
        /\ \A i \in Triggers(last.log) : GuardedTrigger(last.log, i)
        /\ \A i \in DOMAIN last.log :
               (last.log[i] = DelayMs(2) /\ i > 1) =>
                   \A j \in 1..(i - 1) : j \notin Triggers(last.log)
        /\ \A b \in {0, 1} :
               ClearStep(clear_self_test_trigger(WorldHolding(REG_SELF_TEST, b)).w.log)

\* A run has set ST after the clear step and the guard delay.
C17_Witness ==
    /\ last.op = "run_self_test"
    /\ last.res = "Ok"
    /\ Len(last.log) >= 8
    /\ StatusReadAt(last.log, 5)
    /\ last.log[6] = DelayMs(2)
    /\ 8 \in Triggers(last.log)


\* The Z-axis sample reads and the inter-sample delays of a log.
Samples(L) == {i \in DOMAIN L : L[i].op = "read_many"}
Pauses(L) == {i \in DOMAIN L : L[i].op = "delay_ns"}

\* The status reads of the sampling loop: the reads of SELF_TEST behind the
\* trigger and the read that precedes the loop, other than the read of the
\* clear step that follows the loop (which is followed by its write or by
\* the exit reset).
LoopReads(L) ==
    {i \in DOMAIN L :
        /\ StatusReadAt(L, i)
        /\ \E t \in Triggers(L) : i > t + 1
        /\ i < Len(L)
        /\ L[i + 1].op \in {"read_many", "read"}}

\* Every position of S comes before position m.
AllBefore(S, m) == \A i \in S : i < m

\* The accumulated inter-sample delays have reached the timeout budget.
BudgetUsed(L) == Cardinality(Pauses(L)) * 2500000 >= 500 * 1000000

\* C18: in the sampling loop of a self-test, a Z-axis sample read comes
\* right after a status read that does not report ST_DONE and is followed
\* by one delay of 2,500,000 ns, which is the only delay of that kind; a
\* status read of the loop that does not report ST_DONE is followed by a
\* sample read; after a status read that reports ST_DONE no sample is read
\* and no inter-sample delay issued; and once the delays have used up the
\* timeout budget the loop reads neither the status nor a sample again: the
\* timeout check comes before the status read.
C18_SamplingLoopOrder ==
    last.op \in SelfTestOps =>
        /\ \A i \in Samples(last.log) :
               /\ i > 1
               /\ StatusReadAt(last.log, i - 1)
               /\ Field(last.log[i - 1].val, 1, 1) = 0
               /\ last.log[i].ok =>
                      (i < Len(last.log) /\ last.log[i + 1] = DelayNs(2500000))
        /\ \A i \in Pauses(last.log) :
               /\ last.log[i] = DelayNs(2500000)
               /\ i - 1 \in Samples(last.log)
               /\ last.log[i - 1].ok
        /\ \A i \in LoopReads(last.log) :
               IF Field(last.log[i].val, 1, 1) = 0
               THEN last.log[i + 1].op = "read_many"
               ELSE AllBefore(Samples(last.log) \cup Pauses(last.log), i)
        /\ BudgetUsed(last.log) =>
               AllBefore(LoopReads(last.log) \cup Samples(last.log),
                         Latest(Pauses(last.log)))

\* A run has sampled, none of its status reads reporting ST_DONE, until the
\* delays used up the budget.
C18_Witness ==
    /\ last.op = "run_self_test"
    /\ last.res = "Ok"
    /\ BudgetUsed(last.log)
    /\ LoopReads(last.log) # {}
    /\ \A i \in LoopReads(last.log) : Field(last.log[i].val, 1, 1) = 0


\* No bus operation of the log failed.
AllOk(L) == \A i \in DOMAIN L : L[i].ok

\* No status read of the log reports ST_DONE.
NeverDone(L) == \A i \in DOMAIN L : StatusReadAt(L, i) => Field(L[i].val, 1, 1) = 0

\* C19: the sampling loop terminates within the timeout budget, which it
\* measures by the inter-sample delays it has issued: no self-test reads
\* more than 200 Z-axis samples or issues more than 200 inter-sample
\* delays; over a device that never reports ST_DONE, and with no bus
\* failure, it reads exactly 200 samples and issues exactly 200 delays and
\* run_self_test reports timed_out = true; and a report says timed_out only
\* when the 200 delays have been issued.
C19_LoopStopsAfter200Samples ==
    (last.op \in SelfTestOps /\ RunLog(last) # <<>>) =>
        /\ Cardinality(Samples(last.log)) <= 200
        /\ Cardinality(Pauses(last.log)) <= 200
        /\ (AllOk(last.log) /\ NeverDone(last.log)) =>
               /\ Cardinality(Samples(last.log)) = 200
               /\ Cardinality(Pauses(last.log)) = 200
               /\ last.op = "run_self_test" =>
                      (last.res = "Ok" /\ last.report.timed_out)
        /\ (last.op = "run_self_test" /\ last.res = "Ok" /\ last.report.timed_out) =>
               Cardinality(Pauses(last.log)) = 200

\* A run over hardware that never finishes has stopped after 200 samples.
C19_Witness ==
    /\ last.op = "run_self_test"
    /\ last.arg = TimeoutScript
    /\ last.res = "Ok"
    /\ last.report.timed_out
    /\ Cardinality(Samples(last.log)) = 200


\* Window statistics of a timed-out collection with the given averages and
\* final SELF_TEST byte.
TimedOutStats(baseline_avg, stimulated_avg, final_byte) ==
    [baseline_avg |-> baseline_avg, baseline_samples |-> SELF_TEST_SAMPLES_PER_WINDOW,
     stimulated_avg |-> stimulated_avg,
     stimulated_samples |-> SELF_TEST_SAMPLES_PER_WINDOW,
     final_reg |-> SelfTestFrom(final_byte), timed_out |-> TRUE]

\* C20: a self-test timeout is a reported outcome, not an error: with no
\* bus failure run_self_test returns Ok, and when the timeout budget is
\* exhausted (no status read reported ST_DONE) the report says
\* timed_out = true; every report with timed_out = true says
\* passed = false, and so does the report built from timed-out statistics
\* with any displacement and any USER_ST flag.
C20_TimeoutIsReported ==
    last.op = "run_self_test" =>
        /\ AllOk(last.log) => last.res = "Ok"
        /\ (AllOk(last.log) /\ NeverDone(last.log)) => last.report.timed_out
        /\ (last.res = "Ok" /\ last.report.timed_out) => ~last.report.passed
        /\ \A baseline \in {-100, 0, 3}, stimulated \in {-100, 0, 10, 2047},
              final_byte \in 0..7 :
               /\ Verdict(TimedOutStats(baseline, stimulated, final_byte)).timed_out
               /\ ~Verdict(TimedOutStats(baseline, stimulated, final_byte)).passed

\* A run has timed out with a displacement above the threshold and has
\* returned its report.
C20_Witness ==
    /\ last.op = "run_self_test"
    /\ last.res = "Ok"
    /\ last.report.timed_out
    /\ ~last.report.passed
    /\ Abs(last.report.delta_z_lsb) >= 5


---------------------------------------------------------------------------
(* Properties of the self-test's averages and verdict.                     *)

Max(a, b) == IF a >= b THEN a ELSE b

\* The sum of samples a..b of the stream a script describes.
SumRange(script, a, b) ==
    script.lo * Max(0, Min(b, script.switch_at) - a + 1)
        + script.hi * ((b - a + 1) - Max(0, Min(b, script.switch_at) - a + 1))

\* The integer mean, truncated toward zero, of samples a..b of the stream.
MeanOf(script, a, b) == DivTrunc(SumRange(script, a, b), b - a + 1)

\* The number of Z-axis samples a call has read.
SamplesRead(call) == Cardinality(Samples(call.log))

\* C21: for every stream of n >= 1 Z-axis samples in -2048..2047 read
\* before the loop exits, the reported baseline_avg_z is the integer mean
\* (truncated toward zero) of the earliest min(n, 20) samples.
C21_BaselineIsMeanOfEarliest ==
    (last.op = "run_self_test" /\ last.res = "Ok" /\ SamplesRead(last) >= 1) =>
        last.report.baseline_avg_z
            = MeanOf(last.arg, 1, Min(SamplesRead(last), 20))

\* C22: for every stream of n >= 1 Z-axis samples in -2048..2047 read
\* before the loop exits, the reported stimulated_avg_z is the integer mean
\* (truncated toward zero) of the latest min(n, 20) samples.
C22_StimulatedIsMeanOfLatest ==
    (last.op = "run_self_test" /\ last.res = "Ok" /\ SamplesRead(last) >= 1) =>
        last.report.stimulated_avg_z
            = MeanOf(last.arg, SamplesRead(last) - Min(SamplesRead(last), 20) + 1,
                     SamplesRead(last))


\* The completed reads of SELF_TEST of a log.
StatusReads(L) == {i \in DOMAIN L : StatusReadAt(L, i)}

\* The last status read of the sampling loop of a run that returned Ok:
\* the last read of SELF_TEST before the read of the disarming clear step.
FinalStatusRead(L) == Latest(StatusReads(L) \ {Latest(StatusReads(L))})

\* C23: in every SelfTestReport delta_z_lsb = stimulated_avg_z -
\* baseline_avg_z, user_flag is the USER_ST bit of the last status read of
\* the sampling loop, and passed is true exactly when timed_out is false,
\* user_flag is true and |delta_z_lsb| >= 5.
C23_VerdictFormula ==
    (last.op = "run_self_test" /\ last.res = "Ok") =>
        /\ last.report.delta_z_lsb
               = last.report.stimulated_avg_z - last.report.baseline_avg_z
        /\ last.report.user_flag
               <=> Field(last.log[FinalStatusRead(last.log)].val, 2, 1) = 1
        /\ last.report.passed
               <=> (/\ ~last.report.timed_out
                    /\ last.report.user_flag
                    /\ Abs(last.report.delta_z_lsb) >= 5)

\* A run has passed with a displacement of exactly 5 LSB.
C23_Witness ==
    /\ last.op = "run_self_test"
    /\ last.res = "Ok"
    /\ last.report.passed
    /\ last.report.delta_z_lsb = -5

---------------------------------------------------------------------------
(* Properties of the resets and of the errors of run_self_test.            *)

\* The attempts of a log to write the soft-reset command.
ResetWrites(L) ==
    {i \in DOMAIN L : L[i].op = "write" /\ L[i].reg = REG_RESET
                      /\ L[i].val = RESET_COMMAND}

\* C24: every run_self_test call that returns Ok has issued exactly two
\* soft-reset writes: one as its first bus operation and one as its last,
\* with no other reset in between.
C24_TwoResetsAroundRun ==
    (last.op = "run_self_test" /\ last.res = "Ok") =>
        /\ Len(BusOps(last.log)) >= 2
        /\ ResetWrites(BusOps(last.log)) = {1, Len(BusOps(last.log))}

\* A run has returned Ok with a passing report.
C24_Witness ==
    /\ last.op = "run_self_test"
    /\ last.res = "Ok"
    /\ last.report.passed
    /\ Cardinality(Samples(last.log)) >= 2

\* The bus operations of a log that failed, and the first of them.
Failures(L) == {i \in DOMAIN L : ~L[i].ok}
FirstFailure(L) == CHOOSE i \in Failures(L) : \A j \in Failures(L) : i <= j

\* C25: if a bus operation of phases 1 to 4 fails (the read or the write of
\* the power-control setup, a read or write of the arm guard, a status or
\* Z read, the disarm), run_self_test aborts at once, attempts the final
\* reset write and returns the error: the attempt is the one bus operation
\* behind the failed one.
C25_FailureStillResets ==
    LET B == BusOps(last.log)
    IN  (/\ last.op = "run_self_test"
         /\ Failures(B) # {}
         /\ FirstFailure(B) \notin ResetWrites(B)) =>
            /\ last.res = "Interface"
            /\ Len(B) = FirstFailure(B) + 1
            /\ Len(B) \in ResetWrites(B)

\* The settle delay of phase 1 is behind entry i of the log: entry i
\* belongs to the arm, sample or disarm phase, or is the exit reset.
InSequence(L, i) == \E j \in 1..(i - 1) : L[j] = DelayMs(SELF_TEST_SETTLE_DELAY_MS)

\* The position of entry i of a log among the bus operations of the log.
OpIndex(L, i) == Len(BusOps(SubSeq(L, 1, i)))

\* C26: when an operation of the arm, sample or disarm phase fails and the
\* exit reset fails as well, run_self_test returns the error of the first
\* failure; the error of the exit reset is discarded.
C26_FirstErrorWins ==
    LET L == RunLog(last)
    IN  (/\ last.op \in SelfTestOps
         /\ Cardinality(Failures(L)) = 2
         /\ InSequence(L, FirstFailure(L))
         /\ Len(L) \in ResetWrites(L)) =>
            /\ last.res = "Interface"
            /\ last.err = OpIndex(L, FirstFailure(L))

\* The first Z read of the sampling loop and the exit reset behind it have
\* both failed.
C26_Witness ==
    /\ last.op = "run_self_test"
    /\ Cardinality(Failures(BusOps(last.log))) = 2
    /\ BusOps(last.log)[FirstFailure(BusOps(last.log))].op = "read_many"
    /\ Len(BusOps(last.log)) \in ResetWrites(BusOps(last.log))
    /\ last.res = "Interface"

---------------------------------------------------------------------------
(* Properties of the filter settle wait of configure and of init.          *)

\* The millisecond delays of a log.
MsDelays(L) == {i \in DOMAIN L : L[i].op = "delay_ms"}

\* C27: a successful configure that enters measurement mode (the new power
\* mode is Measure and the cached mode before the call was another mode, in
\* particular Standby) issues exactly one delay, of the filter settle time
\* of the new Config, after programming the registers and before it
\* returns.
C27_SettleOnEnteringMeasure ==
    (/\ last.op = "configure"
     /\ last.res = "Ok"
     /\ last.arg.power_mode = "Measure"
     /\ last.pre.power_mode # "Measure") =>
        /\ MsDelays(last.log) = {Len(last.log)}
        /\ last.log[Len(last.log)] = DelayMs(millis(last.arg.filter_settle))

\* The accesses of a log, attempted or completed, to TIMING or MEASURE.
TimingOrMeasure(L) ==
    {i \in DOMAIN L : L[i].op \in {"read", "write"} /\ L[i].reg \in {REG_TIMING, REG_MEASURE}}

\* A complete self-test lies before entry i of the log: an entry reset, the
\* write that arms the self-test, and an exit reset behind it.
SelfTestedBefore(L, i) ==
    \E a \in ResetWrites(L), b \in ResetWrites(L) :
        /\ a < b /\ b < i /\ L[a].ok /\ L[b].ok
        /\ \E t \in (a + 1)..(b - 1) :
               /\ L[t].op = "write" /\ L[t].reg = REG_SELF_TEST /\ L[t].ok
               /\ Field(L[t].val, 0, 1) = 1

\* C28: init issues the 5 ms power-up delay before any bus operation, runs
\* the complete self-test, exit reset included, before its first access to
\* TIMING or MEASURE, and on success leaves the cached Config equal to the
\* Config the driver was constructed with.
C28_InitOrder ==
    last.op = "init" =>
        /\ Len(last.log) >= 1
        /\ last.log[1] = DelayMs(POWER_UP_TO_STANDBY_DELAY_MS)
        /\ \A i \in TimingOrMeasure(last.log) : SelfTestedBefore(last.log, i)
        /\ last.res = "Ok" => config = last.pre

\* init has succeeded on a driver constructed for measurement mode.
C28_Witness ==
    /\ last.op = "init"
    /\ last.res = "Ok"
    /\ last.pre.power_mode = "Measure"
    /\ config = last.pre
    /\ TimingOrMeasure(last.log) # {}

---------------------------------------------------------------------------
(* Properties of the propagation of bus errors.                            *)

\* C29: a bus failure is never retried.  Once a primitive has returned an
\* error, the call issues no further bus operation, other than the single
\* best-effort exit reset of run_self_test behind a failure inside the
\* self-test sequence, and returns Error::Interface with the error of that
\* primitive.
C29_NeverRetried ==
    LET L == last.log
        B == BusOps(last.log)
    IN  Failures(L) # {} =>
            /\ last.res = "Interface"
            /\ last.err = FirstFailure(B)
            /\ \/ Len(B) = FirstFailure(B)
               \/ /\ last.op \in SelfTestOps
                  /\ InSequence(L, FirstFailure(L))
                  /\ FirstFailure(B) \notin ResetWrites(B)
                  /\ Len(B) = FirstFailure(B) + 1
                  /\ Len(B) \in ResetWrites(B)

\* A Z read of the sampling loop has failed and the exit reset behind it
\* has succeeded.
C29_Witness ==
    /\ last.op = "run_self_test"
    /\ Cardinality(Failures(last.log)) = 1
    /\ last.log[FirstFailure(last.log)].op = "read_many"
    /\ last.log[Len(last.log)].ok
    /\ Len(last.log) \in ResetWrites(last.log)
    /\ last.res = "Interface"

---------------------------------------------------------------------------
(* Properties of the decoding of axis samples.                             *)

\* The high and the low byte of a 16-bit word.
HighByte(word) == word \div 256
LowByte(word) == word % 256

\* C30: unpack_axis reads its two bytes as a big-endian 16-bit two's
\* complement word and shifts it right by 4, arithmetically: the result is
\* in -2048..2047, it is the word divided by 16 rounded down, it does not
\* depend on the low 4 bits of the low byte, and the bytes of the result
\* shifted left by 4 decode back to it (the results cover -2048..2047).
C30_UnpackAxis ==
    last.op = "unpack_axis" =>
        /\ last.report.value \in -2048..2047
        /\ 16 * last.report.value <= I16FromBeBytes(last.arg.msb, last.arg.lsb)
        /\ I16FromBeBytes(last.arg.msb, last.arg.lsb) < 16 * last.report.value + 16
        /\ \A low \in 0..15 :
               unpack_axis(last.arg.msb, 16 * (last.arg.lsb \div 16) + low)
                   = last.report.value
        /\ unpack_axis(HighByte(SampleBytes(last.report.value)),
                       LowByte(SampleBytes(last.report.value)))
               = last.report.value

\* The most negative sample has been decoded from bytes whose low four bits
\* are set.
C30_Witness ==
    /\ last.op = "unpack_axis"
    /\ last.arg = [msb |-> 128, lsb |-> 15]
    /\ last.report.value = -2048

---------------------------------------------------------------------------
(* Properties of the SPI transport.                                        *)

SpiReads == {"read_register", "read_many"}
SpiWrites == {"write_register", "write_many"}

\* The length of the buffer or of the payload of an SPI call.
SpiLen(call) == IF call.op \in SpiReads THEN call.arg.len ELSE Len(call.arg.data)

\* The command byte addresses the register of the call: bit 0 is the read
\* flag, bits 7:1 are bits 6:0 of the register address.
Addresses(cmd, call) ==
    /\ Field(cmd, 0, 1) = (IF call.op \in SpiReads THEN 1 ELSE 0)
    /\ Field(cmd, 1, 7) = Field(call.arg.register, 0, 7)

\* C31: every read_register, read_many, write_register or write_many call
\* of SpiInterface with a non-empty buffer performs exactly one SPI
\* transaction of two operations: the write of the single command byte
\* ((register & 0x7F) << 1) | rw, rw = 1 for reads and 0 for writes, then
\* the read of the buffer or the write of the payload; a call with an
\* empty buffer performs no transaction.
C31_OneTransactionPerCall ==
    LET txs == last.report.transactions
    IN  last.op \in SpiReads \cup SpiWrites =>
            IF SpiLen(last) = 0 THEN txs = <<>>
            ELSE /\ Len(txs) = 1
                 /\ Len(txs[1]) = 2
                 /\ txs[1][1].kind = "Write"
                 /\ txs[1][1].len = 1
                 /\ Addresses(txs[1][1].bytes[1], last)
                 /\ IF last.op \in SpiReads
                    THEN txs[1][2] = OperationRead(last.arg.len)
                    ELSE txs[1][2] = OperationWrite(last.arg.data)

\* Two bytes have been read at a register address whose top bit is set.
C31_Witness ==
    /\ last.op = "read_many"
    /\ last.arg = [register |-> 200, len |-> 2]
    /\ last.report.transactions
           = <<(<<OperationWrite(<<145>>), OperationRead(2)>>)>>

---------------------------------------------------------------------------
(* Properties of the disarming of the self-test.                           *)

\* The writes of a log to SELF_TEST.
SelfTestWrites(L) == {i \in DOMAIN L : L[i].op = "write" /\ L[i].reg = REG_SELF_TEST}

\* Bytes a and b differ in bit 0 and in no other bit.
BitZeroOnly(a, b) == a \div 2 = b \div 2 /\ a # b

\* The log ends with the disarming clear step, behind every sample, pause
\* and trigger of the run, and the exit reset behind it.
Disarmed(L) ==
    /\ Len(L) \in ResetWrites(L)
    /\ \E d \in {Len(L) - 2, Len(L) - 1} :
           /\ d > 1
           /\ ClearStep(SubSeq(L, d, Len(L) - 1))
           /\ AllBefore(Samples(L) \cup Pauses(L) \cup Triggers(L), d)

\* The driver over armed hardware that has not finished and whose
\* SELF_TEST register holds byte.
WorldArmed(byte) ==
    [World({}, TimeoutScript) EXCEPT !.regs = [ResetRegs EXCEPT ![REG_SELF_TEST] = byte]]

\* C32: after a sampling loop that ended without a bus failure, by ST_DONE
\* or by timeout, the self-test disarms before the exit reset: it reads
\* SELF_TEST and, only if the ST bit read is set, writes back the byte read
\* with bit 0 cleared and every other bit unchanged.  Every write of the
\* self-test to SELF_TEST comes right behind a read of it and differs from
\* the byte read in bit 0 only.  The clear step does the same over every
\* byte the register can hold.
C32_DisarmBeforeExitReset ==
    last.op \in SelfTestOps =>
        /\ \A i \in SelfTestWrites(RunLog(last)) :
               /\ i > 1
               /\ StatusReadAt(RunLog(last), i - 1)
               /\ BitZeroOnly(RunLog(last)[i - 1].val, RunLog(last)[i].val)
        /\ (last.op = "run_self_test" /\ AllOk(last.log)) => Disarmed(last.log)
        /\ \A b \in Bytes :
               ClearStep(clear_self_test_trigger(WorldArmed(b)).w.log)

\* A run that timed out has read ST set in a byte and written the byte
\* back with ST cleared before its exit reset.
C32_Witness ==
    /\ last.op = "run_self_test"
    /\ last.res = "Ok"
    /\ last.report.timed_out
    /\ Len(last.log) - 1 \in SelfTestWrites(last.log)
    /\ last.log[Len(last.log) - 1].val = last.log[Len(last.log) - 2].val - 1

---------------------------------------------------------------------------
(* Properties of the failures of the resets of run_self_test.              *)

\* C33: if the arm, sample and disarm sequence completes without a bus
\* failure and the exit reset write fails, run_self_test returns that
\* Interface error and no report; if the entry reset fails, it returns the
\* error at once, with no further bus operation.
C33_ResetFailures ==
    LET B == BusOps(last.log)
    IN  last.op = "run_self_test" =>
            /\ (/\ Len(B) > 1
                /\ Failures(B) = {Len(B)}
                /\ Len(B) \in ResetWrites(B)) =>
                   /\ last.res = "Interface"
                   /\ last.err = Len(B)
                   /\ last.report = DefaultReport
            /\ 1 \in Failures(B) =>
                   /\ last.res = "Interface"
                   /\ last.err = 1
                   /\ Len(last.log) = 1

\* The exit reset of a run whose sequence completed with samples read has
\* failed.
C33_Witness ==
    /\ last.op = "run_self_test"
    /\ last.res = "Interface"
    /\ Samples(last.log) # {}
    /\ Failures(last.log) = {Len(last.log)}
    /\ Len(last.log) \in ResetWrites(last.log)

---------------------------------------------------------------------------
(* Properties of init when the self-test does not pass.                    *)

\* The self-test of the last call, run on a bus that does not fail by the
\* driver and over the device the call found.
SelfTestOf(call) ==
    run_self_test([World({}, call.arg) EXCEPT
                      !.config = call.pre, !.regs = call.pre_regs])

\* C34: if the self-test run by init returns a report with passed = false
\* (a timeout included), init returns an error without accessing TIMING or
\* MEASURE and without changing the cached Config; its last bus operation
\* is the exit reset of the self-test, which leaves the device at its
\* power-on defaults.
C34_InitStopsAtFailedSelfTest ==
    (/\ last.op = "init"
     /\ validate(last.pre) = "Ok"
     /\ Failures(last.log) = {}
     /\ ~SelfTestOf(last).report.passed) =>
        /\ last.res \notin {"Ok", "Interface"}
        /\ TimingOrMeasure(last.log) = {}
        /\ config = last.pre
        /\ last.log = <<DelayMs(POWER_UP_TO_STANDBY_DELAY_MS)>> \o SelfTestOf(last).w.log
        /\ Len(last.log) \in ResetWrites(last.log)
        /\ regs = ResetRegs

\* init has stopped at a self-test that timed out, on a driver constructed
\* for measurement mode over a device that held another configuration.
C34_Witness ==
    /\ last.op = "init"
    /\ last.res = "SelfTestFailed"
    /\ last.arg = TimeoutScript
    /\ last.pre.power_mode = "Measure"
    /\ last.pre_regs # ResetRegs
    /\ regs = ResetRegs

---------------------------------------------------------------------------
(* Properties of configure over every cached Config.                       *)

\* C35: for every valid Config c, whatever valid Config is cached, with no
\* bus failure (and a device that retains what is written to it),
\* configure(c) returns Ok, and afterwards the cached Config equals c and
\* the device's TIMING, MEASURE and POWER_CTL decode to the fields of c.
C35_ConfigureAppliesValidConfig ==
    (/\ ~ignore
     /\ last.op = "configure"
     /\ validate(last.arg) = "Ok"
     /\ validate(last.pre) = "Ok"
     /\ Failures(last.log) = {}) =>
        /\ last.res = "Ok"
        /\ config = last.arg
        /\ \A r \in EngineRegs : CacheAgrees(last.arg, r, regs[r])

---------------------------------------------------------------------------
(* Properties of the registers of the device over sequences of calls.      *)

\* The ODR and the bandwidth the device's TIMING and MEASURE hold.
DeviceOdr == FromBits(OutputDataRate, TimingFrom(regs[REG_TIMING]).odr)
DeviceBandwidth == FromBits(Bandwidth, MeasureFrom(regs[REG_MEASURE]).bandwidth)

\* C36: starting from a device at its power-on defaults and a driver with
\* the default Config, after any sequence of configure, configure_timing,
\* configure_measurement, configure_power_ctl, reset and run_self_test
\* calls, the ODR and the bandwidth held in the device's TIMING and MEASURE
\* satisfy bandwidth.max_hz() * 2 <= odr.hz().
C36_DeviceRespectsNyquist == max_hz(DeviceBandwidth) * 2 <= hz(DeviceOdr)

---------------------------------------------------------------------------
(* Properties of the frame of reset and of run_self_test.                  *)

\* C37: run_self_test and reset never modify the cached Config, and
\* run_self_test writes no register other than RESET, POWER_CTL and
\* SELF_TEST and never accesses TIMING or MEASURE: the cached Config after
\* the call equals the cached Config before it even though a successful
\* call has reset the device to its power-on defaults.
C37_ResetAndSelfTestKeepCache ==
    /\ last.op \in {"run_self_test", "reset"} =>
           /\ config = last.pre
           /\ last.res = "Ok" => regs = ResetRegs
    /\ last.op = "run_self_test" =>
           /\ \A i \in DOMAIN last.log :
                  last.log[i].op = "write" =>
                      last.log[i].reg \in {REG_RESET, REG_POWER_CTL, REG_SELF_TEST}
           /\ TimingOrMeasure(last.log) = {}

\* A self-test has returned Ok on a driver whose cached Config is not the
\* default one, over a device that held that configuration; the device is
\* back at its defaults.
C37_Witness ==
    /\ last.op = "run_self_test"
    /\ last.res = "Ok"
    /\ config # DefaultConfig
    /\ last.pre_regs # ResetRegs
    /\ regs = ResetRegs
    /\ Samples(last.log) # {}

---------------------------------------------------------------------------
(* Properties of the two sample windows.                                   *)

\* The number of Z-axis samples the loop has read so far.
SamplesSoFar == last.report.w.zreads

\* C38: at every point of the sampling loop the baseline sample count and
\* the stimulated (ring) sample count are equal, both are min(n, 20) where
\* n is the number of Z-axis samples read so far, and the ring index is
\* n mod 20; hence the samples_per_window of the report is min(n, 20) and
\* never exceeds 20.
C38_WindowCounts ==
    last.op = "loop" =>
        /\ last.report.s.baseline_count = Min(SamplesSoFar, 20)
        /\ last.report.s.rolling_count = Min(SamplesSoFar, 20)
        /\ last.report.s.rolling_index = SamplesSoFar % 20
        /\ Verdict(WindowStats(last.report.s)).samples_per_window
               = Min(SamplesSoFar, 20)
        /\ Verdict(WindowStats(last.report.s)).samples_per_window <= 20

\* The loop has read 45 samples: the ring has wrapped twice.
C38_Witness ==
    /\ last.op = "loop"
    /\ SamplesSoFar = 45
    /\ last.report.s.rolling_index = 5
    /\ last.report.s.rolling_count = 20
    /\ last.report.s.baseline_count = 20

\* C39: if the sampling loop exits after reading at most 20 Z-axis samples
\* (zero samples included, when ST_DONE is set at the first status read of
\* the loop), the two windows hold the same samples: baseline_avg_z =
\* stimulated_avg_z, delta_z_lsb = 0 and passed = false, whatever the
\* samples and the status flags are.
C39_ShortRunNeverPasses ==
    (last.op = "run_self_test" /\ last.res = "Ok" /\ SamplesRead(last) <= 20) =>
        /\ last.report.baseline_avg_z = last.report.stimulated_avg_z
        /\ last.report.delta_z_lsb = 0
        /\ ~last.report.passed

\* A run has ended with ST_DONE and USER_ST set after exactly 20 samples,
\* the first of which differs from the rest.
C39_Witness ==
    /\ last.op = "run_self_test"
    /\ last.res = "Ok"
    /\ SamplesRead(last) = 20
    /\ last.arg.switch_at = 1
    /\ last.arg.lo # last.arg.hi
    /\ last.report.user_flag
    /\ ~last.report.timed_out
    /\ ~last.report.passed

\* The values of an i16.
I16 == -32768..32767

\* C40: for every stream of 12-bit samples (each in -2048..2047) the
\* baseline_avg_z and the stimulated_avg_z of the report lie in
\* -2048..2047, so that stimulated_avg_z - baseline_avg_z and the absolute
\* value the verdict takes of it do not overflow a signed 16-bit integer.
C40_AveragesInRange ==
    (last.op = "run_self_test" /\ last.res = "Ok") =>
        /\ last.report.baseline_avg_z \in -2048..2047
        /\ last.report.stimulated_avg_z \in -2048..2047
        /\ last.report.stimulated_avg_z - last.report.baseline_avg_z \in I16
        /\ Abs(last.report.stimulated_avg_z - last.report.baseline_avg_z) \in I16
        /\ last.report.delta_z_lsb
               = last.report.stimulated_avg_z - last.report.baseline_avg_z

\* A run whose windows lie at the two ends of the sample range: 20 samples
\* of 2047, then 20 of -2048, whose sums saturate.
C40_Witness ==
    /\ last.op = "run_self_test"
    /\ last.res = "Ok"
    /\ last.arg.lo = 2047
    /\ last.arg.hi = -2048
    /\ last.arg.switch_at = 20
    /\ SamplesRead(last) = 40
    /\ last.report.delta_z_lsb < -3000

=============================================================================
